---- MODULE Spec2Model ----
(***************************************************************************)
(* A model of the scope graph of the crush shell (src/src/lang/scope.rs).  *)
(*                                                                         *)
(* A scope is a handle (Arc) on mutex-guarded ScopeData.  The model keeps  *)
(* the ScopeData of every scope ever created in the sequence sc; a handle  *)
(* is an index into sc.  Three specifications run the same code:           *)
(*                                                                         *)
(*   Spec           one caller: every scope operation is one action that   *)
(*                  runs the whole method;                                 *)
(*   SpecRoundTrip  one caller that runs declare, get, remove, get on a    *)
(*                  scope that was just made;                              *)
(*   SpecConc       several threads: a method is run lock section by lock  *)
(*                  section, and the mutex of every scope is part of the   *)
(*                  state.                                                 *)
(***************************************************************************)
EXTENDS Integers, Sequences, FiniteSets, TLC

(***************************************************************************)
(* Bounds of the model.                                                    *)
(***************************************************************************)
\* Scopes that are ever created (handles are 1..MaxScopes).
MaxScopes == 3
\* Size of the scope graph the caller builds before the observed call:
\* scopes besides the root + bindings + imports + flags that are set.
MaxSize == 3

\* Variable names, and the dotted paths the path-taking methods are given.
Names == {"x", "y"}
Paths == {<<"x">>, <<"y">>, <<"y", "x">>}

(***************************************************************************)
(* Values (crate::lang::value::Value) and their types: a tagged union, of  *)
(* which the model keeps two scalar variants and the scope handles.        *)
(* None is Option::None of Option<Value>, NoScope is Option::None of       *)
(* Option<Scope>.                                                          *)
(***************************************************************************)
NoScope == 0
None == [type |-> "none", val |-> 0]
IntegerV(i) == [type |-> "integer", val |-> i]
TextV(i) == [type |-> "text", val |-> i]
ScopeV(s) == [type |-> "scope", val |-> s]
\* The result of a call that never returns because its recursion has no end.
Overflow == [type |-> "overflow", val |-> 0]

ScalarValues == {IntegerV(1), IntegerV(2), TextV(1)}

value_type(v) == v.type

(***************************************************************************)
(* ScopeData::new.                                                         *)
(***************************************************************************)
ScopeData_new(parent_scope, calling_scope, is_loop) ==
    [parent_scope  |-> parent_scope,
     calling_scope |-> calling_scope,
     is_loop       |-> is_loop,
     uses          |-> <<>>,
     mapping       |-> [n \in Names |-> None],
     is_stopped    |-> FALSE,
     is_readonly   |-> FALSE]

Scopes(g) == 1..Len(g)

\* Scope::new: the graph that holds one scope.
Scope_new == <<ScopeData_new(NoScope, NoScope, FALSE)>>

\* Scope::create_child: the new scope is the last of the graph.
create_child(g, self, caller, is_loop) ==
    Append(g, ScopeData_new(self, caller, is_loop))

(***************************************************************************)
(* Scope::get.  A call that meets a scope whose get is already on the      *)
(* stack repeats what led it there, so it never returns.                   *)
(***************************************************************************)
RECURSIVE get_rec(_, _, _, _), get_uses(_, _, _, _, _)
get_rec(g, self, name, active) ==
    IF self \in active THEN Overflow
    ELSE LET data == g[self] IN
         IF data.mapping[name] # None THEN data.mapping[name]
         ELSE IF data.parent_scope # NoScope
              THEN get_rec(g, data.parent_scope, name, active \cup {self})
              ELSE get_uses(g, data.uses, 1, name, active \cup {self})

get_uses(g, uses, i, name, active) ==
    IF i > Len(uses) THEN None
    ELSE LET res == get_rec(g, uses[i], name, active) IN
         IF res # None THEN res
         ELSE get_uses(g, uses, i + 1, name, active)

get(g, self, name) == get_rec(g, self, name, {})

(***************************************************************************)
(* Scope::declare.  declare_locked is the section under the scope's lock.  *)
(***************************************************************************)
\* Mutants of declare_locked: one that overwrites a binding that exists, one
\* that declares into a read-only scope.
declare_overwrites(data, key, value) ==
    IF data.is_readonly THEN [data |-> data, res |-> "read_only"]
    ELSE [data |-> [data EXCEPT !.mapping[key] = value], res |-> "ok"]

declare_unsealed(data, key, value) ==
    IF data.mapping[key] # None THEN [data |-> data, res |-> "already_exists"]
    ELSE [data |-> [data EXCEPT !.mapping[key] = value], res |-> "ok"]

\* Mutant of declare_locked: a name that is bound already is reported as
\* declared, and the binding is kept.
declare_silent(data, key, value) ==
    IF data.is_readonly THEN [data |-> data, res |-> "read_only"]
    ELSE IF data.mapping[key] # None THEN [data |-> data, res |-> "ok"]
    ELSE [data |-> [data EXCEPT !.mapping[key] = value], res |-> "ok"]

declare_locked(data, key, value) ==
    IF data.is_readonly THEN [data |-> data, res |-> "read_only"]
    ELSE IF data.mapping[key] # None THEN [data |-> data, res |-> "already_exists"]
    ELSE [data |-> [data EXCEPT !.mapping[key] = value], res |-> "ok"]

\* Mutant of declare: the last name of a path is bound in the scope the call
\* is made on.
declare_in_self(g, self, name, value) ==
    IF Len(name) = 0 THEN [g |-> g, res |-> "empty_name"]
    ELSE LET r == declare_locked(g[self], name[Len(name)], value) IN
         [g |-> [g EXCEPT ![self] = r.data], res |-> r.res]

RECURSIVE declare(_, _, _, _)
declare(g, self, name, value) ==
    IF Len(name) = 0 THEN [g |-> g, res |-> "empty_name"]
    ELSE IF Len(name) = 1
    THEN LET r == declare_locked(g[self], name[1], value) IN
         [g |-> [g EXCEPT ![self] = r.data], res |-> r.res]
    ELSE LET env == get(g, self, name[1]) IN
         IF env = None THEN [g |-> g, res |-> "not_a_namespace"]
         ELSE IF env = Overflow THEN [g |-> g, res |-> "overflow"]
         ELSE IF env.type = "scope" THEN declare(g, env.val, Tail(name), value)
         ELSE [g |-> g, res |-> "unknown_namespace"]

\* Scope::create_namespace: the new scope is kept when declare succeeds.
create_namespace(g, self, name) ==
    LET res == Len(g) + 1
        g1  == Append(g, ScopeData_new(NoScope, NoScope, FALSE))
        r   == declare(g1, self, <<name>>, ScopeV(res))
    IN  IF r.res = "ok" THEN r ELSE [g |-> g, res |-> r.res]

(***************************************************************************)
(* Scope::set and Scope::set_on_data.                                      *)
(***************************************************************************)
\* Mutants of set_on_data_locked: one without the type check, one that goes
\* on to the parent when the scope that binds the name is read-only.
set_on_data_untyped(data, name, value) ==
    IF data.mapping[name] = None
    THEN IF data.parent_scope # NoScope
         THEN [data |-> data, res |-> "parent"]
         ELSE [data |-> data, res |-> "unknown_variable"]
    ELSE IF data.is_readonly THEN [data |-> data, res |-> "read_only"]
    ELSE [data |-> [data EXCEPT !.mapping[name] = value], res |-> "ok"]

set_on_data_skips_readonly(data, name, value) ==
    IF data.mapping[name] = None \/ (data.is_readonly /\ data.parent_scope # NoScope)
    THEN IF data.parent_scope # NoScope
         THEN [data |-> data, res |-> "parent"]
         ELSE [data |-> data, res |-> "unknown_variable"]
    ELSE IF data.is_readonly THEN [data |-> data, res |-> "read_only"]
    ELSE IF value_type(data.mapping[name]) # value_type(value)
         THEN [data |-> data, res |-> "type_mismatch"]
    ELSE [data |-> [data EXCEPT !.mapping[name] = value], res |-> "ok"]

set_on_data_locked(data, name, value) ==
    IF data.mapping[name] = None
    THEN IF data.parent_scope # NoScope
         THEN [data |-> data, res |-> "parent"]
         ELSE [data |-> data, res |-> "unknown_variable"]
    ELSE IF data.is_readonly THEN [data |-> data, res |-> "read_only"]
    ELSE IF value_type(data.mapping[name]) # value_type(value)
         THEN [data |-> data, res |-> "type_mismatch"]
    ELSE [data |-> [data EXCEPT !.mapping[name] = value], res |-> "ok"]

\* Mutant of set_on_data: a name that the parent chain does not bind is set
\* in the first imported scope that binds it.
RECURSIVE set_on_data_imports(_, _, _, _)
set_on_data_imports(g, self, name, value) ==
    LET r == set_on_data_locked(g[self], name, value)
        found == {i \in 1..Len(g[self].uses) : g[g[self].uses[i]].mapping[name] # None}
    IN  IF r.res = "parent" THEN set_on_data_imports(g, g[self].parent_scope, name, value)
        ELSE IF r.res = "unknown_variable" /\ found # {}
        THEN LET o == g[self].uses[CHOOSE i \in found : \A j \in found : i <= j]
                 ro == set_on_data_locked(g[o], name, value)
             IN  [g |-> [g EXCEPT ![o] = ro.data], res |-> ro.res]
        ELSE [g |-> [g EXCEPT ![self] = r.data], res |-> r.res]

RECURSIVE set_on_data(_, _, _, _)
set_on_data(g, self, name, value) ==
    LET r == set_on_data_locked(g[self], name, value) IN
    IF r.res = "parent" THEN set_on_data(g, g[self].parent_scope, name, value)
    ELSE [g |-> [g EXCEPT ![self] = r.data], res |-> r.res]

RECURSIVE set(_, _, _, _)
set(g, self, name, value) ==
    IF Len(name) = 0 THEN [g |-> g, res |-> "empty_name"]
    ELSE IF Len(name) = 1 THEN set_on_data(g, self, name[1], value)
    ELSE LET env == get(g, self, name[1]) IN
         IF env = None THEN [g |-> g, res |-> "not_a_namespace"]
         ELSE IF env = Overflow THEN [g |-> g, res |-> "overflow"]
         ELSE IF env.type = "scope" THEN set(g, env.val, Tail(name), value)
         ELSE [g |-> g, res |-> "unknown_namespace"]

(***************************************************************************)
(* Scope::remove and Scope::remove_here.                                   *)
(***************************************************************************)
\* Mutant of remove_here_locked: it returns the value and keeps the binding.
remove_here_keeps(data, key) ==
    IF data.mapping[key] = None
    THEN IF data.parent_scope # NoScope
         THEN [data |-> data, res |-> "parent", ret |-> None]
         ELSE [data |-> data, res |-> "done", ret |-> None]
    ELSE IF data.is_readonly THEN [data |-> data, res |-> "done", ret |-> None]
    ELSE [data |-> data, res |-> "done", ret |-> data.mapping[key]]

remove_here_locked(data, key) ==
    IF data.mapping[key] = None
    THEN IF data.parent_scope # NoScope
         THEN [data |-> data, res |-> "parent", ret |-> None]
         ELSE [data |-> data, res |-> "done", ret |-> None]
    ELSE IF data.is_readonly THEN [data |-> data, res |-> "done", ret |-> None]
    ELSE [data |-> [data EXCEPT !.mapping[key] = None], res |-> "done",
          ret |-> data.mapping[key]]

\* Mutant of remove_here: it looks at the scope itself and never at a parent.
remove_here_local(g, self, key) ==
    LET r == remove_here_locked(g[self], key) IN
    IF r.res = "parent" THEN [g |-> g, ret |-> None]
    ELSE [g |-> [g EXCEPT ![self] = r.data], ret |-> r.ret]

RECURSIVE remove_here(_, _, _)
remove_here(g, self, key) ==
    LET r == remove_here_locked(g[self], key) IN
    IF r.res = "parent" THEN remove_here(g, g[self].parent_scope, key)
    ELSE [g |-> [g EXCEPT ![self] = r.data], ret |-> r.ret]

RECURSIVE remove(_, _, _)
remove(g, self, name) ==
    IF Len(name) = 0 THEN [g |-> g, ret |-> None]
    ELSE IF Len(name) = 1 THEN remove_here(g, self, name[1])
    ELSE LET env == get(g, self, name[1]) IN
         IF env = None THEN [g |-> g, ret |-> None]
         ELSE IF env = Overflow THEN [g |-> g, ret |-> Overflow]
         ELSE IF env.type = "scope" THEN remove(g, env.val, Tail(name))
         ELSE [g |-> g, ret |-> None]

(***************************************************************************)
(* Scope::do_continue and Scope::do_break: the first lock section decides  *)
(* (refused, loop found, or ask the caller); after a caller that honoured  *)
(* the request the scope is locked again and marked stopped.               *)
(***************************************************************************)
do_continue_locked(data) ==
    IF data.is_readonly THEN [data |-> data, res |-> "false"]
    ELSE IF data.is_loop THEN [data |-> data, res |-> "true"]
    ELSE [data |-> data, res |-> "caller"]

do_break_locked(data) ==
    IF data.is_readonly THEN [data |-> data, res |-> "false"]
    ELSE IF data.is_loop THEN [data |-> [data EXCEPT !.is_stopped = TRUE], res |-> "true"]
    ELSE [data |-> data, res |-> "caller"]

\* self.data.lock().unwrap().is_stopped = true
mark_stopped(data) == [data EXCEPT !.is_stopped = TRUE]

\* Mutant of caller_of: the request is passed on to the parent.
caller_is_parent(data) == data.parent_scope

\* data.calling_scope.clone(): the scope the request is passed on to.
caller_of(data) == data.calling_scope

RECURSIVE do_continue(_, _)
do_continue(g, self) ==
    LET r == do_continue_locked(g[self]) IN
    IF r.res # "caller" THEN [g |-> [g EXCEPT ![self] = r.data], ret |-> r.res = "true"]
    ELSE LET caller == caller_of(g[self])
             ok == IF caller # NoScope THEN do_continue(g, caller)
                   ELSE [g |-> g, ret |-> FALSE]
         IN  IF ~ok.ret THEN [g |-> ok.g, ret |-> FALSE]
             ELSE [g |-> [ok.g EXCEPT ![self] = mark_stopped(ok.g[self])], ret |-> TRUE]

RECURSIVE do_break(_, _)
do_break(g, self) ==
    LET r == do_break_locked(g[self]) IN
    IF r.res # "caller" THEN [g |-> [g EXCEPT ![self] = r.data], ret |-> r.res = "true"]
    ELSE LET caller == caller_of(g[self])
             ok == IF caller # NoScope THEN do_break(g, caller)
                   ELSE [g |-> g, ret |-> FALSE]
         IN  IF ~ok.ret THEN [g |-> ok.g, ret |-> FALSE]
             ELSE [g |-> [ok.g EXCEPT ![self] = mark_stopped(ok.g[self])], ret |-> TRUE]

\* Scope::is_stopped, Scope::use, Scope::readonly.
is_stopped(g, self) == g[self].is_stopped
use(g, self, other) == [g EXCEPT ![self].uses = Append(@, other)]
readonly(g, self) == [g EXCEPT ![self].is_readonly = TRUE]

(***************************************************************************)
(* Scope::dump, run by one thread.  The map holds the type recorded for    *)
(* every name, "" for a name that is not in it.  held is the set of scopes *)
(* whose mutex a dump further up the stack holds: the guard of line 278    *)
(* lives until p.dump(map) has returned, the guard of line 283 until the   *)
(* loop over the uses has ended.  A dump that comes to a scope of held     *)
(* locks a mutex its own thread holds, and never returns.                  *)
(***************************************************************************)
\* .iter().rev() of a cloned list.
RECURSIVE Reverse(_)
Reverse(s) == IF s = <<>> THEN <<>> ELSE Append(Reverse(Tail(s)), Head(s))

NoMap == [n \in Names |-> ""]

\* A loop over the uses from the first to the last.
uses_forward(uses) == uses

\* self.data.lock().unwrap().uses.clone().iter().rev(), line 283.
uses_rev(uses) == Reverse(uses)

\* Lines 287-290: the local bindings are inserted, over what is there.
dump_local(data, map) ==
    [n \in Names |-> IF data.mapping[n] # None THEN value_type(data.mapping[n])
                     ELSE map[n]]

RECURSIVE dump_rec(_, _, _, _), dump_uses(_, _, _, _, _)
dump_rec(g, self, map, held) ==
    IF self \in held THEN [map |-> map, res |-> "relock"]
    ELSE LET data == g[self]
             p == IF data.parent_scope # NoScope
                  THEN dump_rec(g, data.parent_scope, map, held \cup {self})
                  ELSE [map |-> map, res |-> "ok"]
         IN  IF p.res # "ok" THEN p
             ELSE LET u == dump_uses(g, uses_rev(data.uses), 1, p.map, held \cup {self}) IN
                  IF u.res # "ok" THEN u
                  ELSE [map |-> dump_local(data, u.map), res |-> "ok"]

dump_uses(g, uses, i, map, held) ==
    IF i > Len(uses) THEN [map |-> map, res |-> "ok"]
    ELSE LET u == dump_rec(g, uses[i], map, held) IN
         IF u.res # "ok" THEN u
         ELSE dump_uses(g, uses, i + 1, u.map, held)

dump(g, self) == dump_rec(g, self, NoMap, {})

(***************************************************************************)
(* State.                                                                  *)
(*   sc    the ScopeData of every scope, by handle                         *)
(*   last  the observed call: operation, arguments, result                 *)
(*   pre   the scope graph the observed call started from                  *)
(*   hist  the calls of a caller that runs a script, with their results    *)
(*   lock  the mutex of every scope: the thread that holds it               *)
(*   thr   the threads of SpecConc: the operation each one runs, its call   *)
(*         stack, the value its last inner call returned, its dump map      *)
(***************************************************************************)
VARIABLES sc, last, pre, hist, lock, thr

(***************************************************************************)
(* State of the other parts of the program, each with a specification of   *)
(* its own (further down).                                                 *)
(*   script   the script string() is given: what parse and every           *)
(*            job_definition.invoke return                                 *)
(*   ctl      string(): the place in it, the job of the loop, the handles  *)
(*            whose join has begun                                         *)
(*   workers  the worker threads behind the Async handles                  *)
(*   log      what string() and join did, in order: invocations, joins,    *)
(*            printer calls                                                *)
(***************************************************************************)
VARIABLES script, ctl, workers, log

(***************************************************************************)
(*   input    what the drop stage finds on its input: the value, and the   *)
(*            schema and rows if it is a stream                            *)
(*   cfg      the fields the drop stage was given                          *)
(*   output   the output of the drop stage: how often it was initialized,  *)
(*            the schema, the rows sent, whether the receiver is there     *)
(*   stage    the drop stage: the place in it, the rows read, the row in   *)
(*            hand, the result                                             *)
(***************************************************************************)
VARIABLES input, cfg, output, stage

(***************************************************************************)
(*   command    a command, and                                             *)
(*   arguments  the argument expressions it is asked about                 *)
(*   blocks     what can_block answered                                    *)
(*   receivers  the values the command was bound to, in order              *)
(*   invoked    what invoke ran: the command whose call ran and the        *)
(*              context it was given                                       *)
(*   cells      cells, and                                                 *)
(*   eq         what == answered for the data types of two of them         *)
(***************************************************************************)
VARIABLES command, arguments, blocks, receivers, invoked, cells, eq

(***************************************************************************)
(*   pup      a run of pup(): the place in it, what the buffer holds, the  *)
(*            values queued on the output channel and its live senders,    *)
(*            the worker the command left behind, the serializer thread,   *)
(*            what invoke returned and what pup returned                   *)
(***************************************************************************)
VARIABLES pup

scopeVars == <<sc, last, pre, hist, lock, thr>>
execVars == <<script, ctl, workers, log>>
dropVars == <<input, cfg, output, stage>>
cmdVars == <<command, arguments, blocks, receivers, invoked>>
typeVars == <<cells, eq>>
pupVars == <<pup>>
pureVars == <<cmdVars, typeVars, pupVars>>
rest == <<execVars, dropVars, pureVars>>

vars == <<scopeVars, rest>>

NoCall == [op |-> "none", self |-> NoScope, name |-> <<>>, value |-> None,
           other |-> NoScope, flag |-> FALSE, res |-> "", ret |-> None]

Call(op, self, name, value, other, flag, res, ret) ==
    [op |-> op, self |-> self, name |-> name, value |-> value,
     other |-> other, flag |-> flag, res |-> res, ret |-> ret]

Bool(b) == IF b THEN "true" ELSE "false"

Count(S) == Cardinality(S)

Min(S) == CHOOSE x \in S : \A y \in S : x <= y

GraphSize(g) ==
    (Len(g) - 1)
    + Count({<<s, n>> \in Scopes(g) \X Names : g[s].mapping[n] # None})
    + Count({<<s, i>> \in Scopes(g) \X (1..MaxSize + 1) : i <= Len(g[s].uses)})
    + Count({s \in Scopes(g) : g[s].is_readonly})
    + Count({s \in Scopes(g) : g[s].is_stopped})

\* No script is run.
NoScript == [parse |-> "none", jobs |-> <<>>]
NoCtl == [pc |-> "none", i |-> 0, stack |-> <<>>]

ExecIdle ==
    /\ script = NoScript
    /\ ctl = NoCtl
    /\ workers = <<>>
    /\ log = <<>>

NoInput == [kind |-> "none", types |-> <<>>, rows |-> <<>>]
NoOutput == [inits |-> 0, types |-> <<>>, rows |-> <<>>, open |-> FALSE]
NoStage == [pc |-> "none", nread |-> 0, row |-> <<>>, res |-> "none"]

NoCfg == [parse |-> "none", drop |-> <<>>]

DropIdle ==
    /\ input = NoInput
    /\ cfg = NoCfg
    /\ output = NoOutput
    /\ stage = NoStage

NoCommand == [kind |-> "none"]

CmdIdle ==
    /\ command = NoCommand
    /\ arguments = <<>>
    /\ blocks = <<>>
    /\ receivers = <<>>
    /\ invoked = <<>>

TypeIdle ==
    /\ cells = <<>>
    /\ eq = <<>>

\* pup is not run.
NoPup == [pc |-> "none", buf |-> "none", chan |-> 0, senders |-> 0, sent |-> 0,
          worker |-> "none", ser |-> "none", invoked |-> "none", res |-> "none"]

PupIdle == pup = NoPup

\* Threads of the concurrent specification.
NumThreads == 2
Threads == 1..NumThreads

\* Mutex states besides "held by thread t": unlocked, and poisoned by a
\* thread that panicked while it held the lock.
NoThread == 0
Poisoned == -1

NoRet == [res |-> "", val |-> None]

\* A thread that has not been given its operation.
Idle == [call |-> NoCall, stack |-> <<>>, ret |-> NoRet, map |-> [n \in Names |-> ""]]

\* The scope graph as Scope::new leaves it, and no call made.
ScopeIdle ==
    /\ sc = Scope_new
    /\ last = NoCall
    /\ pre = <<>>
    /\ hist = <<>>
    /\ lock = [s \in 1..MaxScopes |-> NoThread]
    /\ thr = [t \in Threads |-> Idle]

Init ==
    /\ ScopeIdle
    /\ ExecIdle
    /\ DropIdle
    /\ CmdIdle
    /\ TypeIdle
    /\ PupIdle

(***************************************************************************)
(* One caller.  The caller builds a scope graph call by call (Build: any   *)
(* method, any arguments, the whole method each time) and then makes the   *)
(* observed call, whose arguments and result are kept in last and whose    *)
(* starting graph is kept in pre.                                          *)
(***************************************************************************)
CallsWith(g, values) ==
    (IF Len(g) < MaxScopes
     THEN {create_child(g, s, c, l) : <<s, c, l>> \in Scopes(g) \X Scopes(g) \X BOOLEAN}
          \cup {create_namespace(g, s, n).g : <<s, n>> \in Scopes(g) \X Names}
     ELSE {})
    \cup {declare(g, s, p, v).g : <<s, p, v>> \in Scopes(g) \X Paths \X values}
    \cup {set(g, s, p, v).g : <<s, p, v>> \in Scopes(g) \X Paths \X values}
    \cup {remove(g, s, p).g : <<s, p>> \in Scopes(g) \X Paths}
    \cup {use(g, s, o) : <<s, o>> \in Scopes(g) \X Scopes(g)}
    \cup {readonly(g, s) : s \in Scopes(g)}
    \cup {do_break(g, s).g : s \in Scopes(g)}
    \cup {do_continue(g, s).g : s \in Scopes(g)}

OneCall(g) == CallsWith(g, ScalarValues)

Build ==
    /\ last.op = "none"
    /\ hist = <<>>
    /\ \E g2 \in OneCall(sc) :
        /\ g2 # sc
        /\ GraphSize(g2) <= MaxSize
        /\ sc' = g2
    /\ UNCHANGED <<last, pre, hist, lock, thr, rest>>

Step(call, g2) ==
    /\ last.op = "none"
    /\ hist = <<>>
    /\ sc' = g2
    /\ last' = call
    /\ pre' = sc
    /\ UNCHANGED <<hist, lock, thr, rest>>

CreateChild ==
    \E self \in Scopes(sc), caller \in Scopes(sc), is_loop \in BOOLEAN :
        /\ Len(sc) < MaxScopes
        /\ Step(Call("create_child", self, <<>>, None, caller, is_loop, "ok", ScopeV(Len(sc) + 1)),
                create_child(sc, self, caller, is_loop))

CreateNamespace ==
    \E self \in Scopes(sc), name \in Names :
        /\ Len(sc) < MaxScopes
        /\ LET r == create_namespace(sc, self, name) IN
           Step(Call("create_namespace", self, <<name>>, None, NoScope, FALSE, r.res,
                     IF r.res = "ok" THEN ScopeV(Len(sc) + 1) ELSE None),
                r.g)

Declare ==
    \E self \in Scopes(sc), name \in Paths, value \in ScalarValues :
        LET r == declare(sc, self, name, value) IN
        Step(Call("declare", self, name, value, NoScope, FALSE, r.res, None), r.g)

Set ==
    \E self \in Scopes(sc), name \in Paths, value \in ScalarValues :
        LET r == set(sc, self, name, value) IN
        Step(Call("set", self, name, value, NoScope, FALSE, r.res, None), r.g)

Remove ==
    \E self \in Scopes(sc), name \in Paths :
        LET r == remove(sc, self, name) IN
        Step(Call("remove", self, name, None, NoScope, FALSE, "ok", r.ret), r.g)

Get ==
    \E self \in Scopes(sc), name \in Names :
        Step(Call("get", self, <<name>>, None, NoScope, FALSE, "ok", get(sc, self, name)), sc)

Use ==
    \E self \in Scopes(sc), other \in Scopes(sc) :
        Step(Call("use", self, <<>>, None, other, FALSE, "ok", None), use(sc, self, other))

Readonly ==
    \E self \in Scopes(sc) :
        Step(Call("readonly", self, <<>>, None, NoScope, FALSE, "ok", None), readonly(sc, self))

DoBreak ==
    \E self \in Scopes(sc) :
        LET r == do_break(sc, self) IN
        Step(Call("do_break", self, <<>>, None, NoScope, FALSE, Bool(r.ret), None), r.g)

DoContinue ==
    \E self \in Scopes(sc) :
        LET r == do_continue(sc, self) IN
        Step(Call("do_continue", self, <<>>, None, NoScope, FALSE, Bool(r.ret), None), r.g)

IsStopped ==
    \E self \in Scopes(sc) :
        Step(Call("is_stopped", self, <<>>, None, NoScope, FALSE, Bool(is_stopped(sc, self)), None), sc)

Next ==
    \/ Build
    \/ CreateChild
    \/ CreateNamespace
    \/ Declare
    \/ Set
    \/ Remove
    \/ Get
    \/ Use
    \/ Readonly
    \/ DoBreak
    \/ DoContinue
    \/ IsStopped

Spec == Init /\ [][Next]_vars

(***************************************************************************)
(* A caller that runs the script declare(n, v); get(n); remove(n); get(n)  *)
(* on a scope that is as Scope::new left it, in a graph built as above.    *)
(* hist keeps the calls made so far.                                       *)
(***************************************************************************)
Fresh(g, s) == g[s] = ScopeData_new(NoScope, NoScope, FALSE)

RtBuild ==
    /\ hist = <<>>
    /\ \E g2 \in OneCall(sc) :
        /\ g2 # sc
        /\ GraphSize(g2) <= MaxSize
        /\ sc' = g2
    /\ UNCHANGED <<last, pre, hist, lock, thr, rest>>

RtDeclare ==
    /\ hist = <<>>
    /\ \E self \in Scopes(sc), n \in Names, value \in ScalarValues :
        /\ Fresh(sc, self)
        /\ LET r == declare(sc, self, <<n>>, value) IN
           /\ sc' = r.g
           /\ hist' = <<Call("declare", self, <<n>>, value, NoScope, FALSE, r.res, None)>>
    /\ UNCHANGED <<last, pre, lock, thr, rest>>

RtGet ==
    /\ Len(hist) \in {1, 3}
    /\ LET self == hist[1].self
           n == hist[1].name[1]
       IN  hist' = Append(hist, Call("get", self, <<n>>, None, NoScope, FALSE, "ok", get(sc, self, n)))
    /\ UNCHANGED <<sc, last, pre, lock, thr, rest>>

RtRemove ==
    /\ Len(hist) = 2
    /\ LET self == hist[1].self
           n == hist[1].name
           r == remove(sc, self, n)
       IN  /\ sc' = r.g
           /\ hist' = Append(hist, Call("remove", self, n, None, NoScope, FALSE, "ok", r.ret))
    /\ UNCHANGED <<last, pre, lock, thr, rest>>

NextRoundTrip ==
    \/ RtBuild
    \/ RtDeclare
    \/ RtGet
    \/ RtRemove

SpecRoundTrip == Init /\ [][NextRoundTrip]_vars

(***************************************************************************)
(* A caller that looks at a scope: it builds a graph of scopes, bindings   *)
(* and imports, calls dump on a scope, and after a dump that returned it   *)
(* calls get on the same scope.  hist keeps the two calls.                 *)
(***************************************************************************)
\* Size of the graph that is looked at.
MaxViewSize == 6

\* The values that are bound.
ViewValues == {IntegerV(1), TextV(1)}

ViewCalls(g) ==
    (IF Len(g) < MaxScopes
     THEN {create_child(g, s, s, FALSE) : s \in Scopes(g)}
          \cup {create_namespace(g, s, n).g : <<s, n>> \in Scopes(g) \X Names}
     ELSE {})
    \cup {declare(g, s, <<n>>, v).g : <<s, n, v>> \in Scopes(g) \X Names \X ViewValues}
    \cup {use(g, s, o) : <<s, o>> \in Scopes(g) \X Scopes(g)}

RECURSIVE Sum(_, _)
Sum(f, k) == IF k = 0 THEN 0 ELSE f[k] + Sum(f, k - 1)

\* Scopes but the first, bindings and imports.
ViewSize(g) ==
    (Len(g) - 1)
    + Count({<<s, n>> \in Scopes(g) \X Names : g[s].mapping[n] # None})
    + Sum([s \in Scopes(g) |-> Len(g[s].uses)], Len(g))

ViewBuild ==
    /\ hist = <<>>
    /\ \E g2 \in ViewCalls(sc) :
        /\ g2 # sc
        /\ ViewSize(g2) <= MaxViewSize
        /\ sc' = g2
    /\ UNCHANGED <<last, pre, hist, lock, thr, rest>>

\* dump on a scope.  A dump that locks a mutex its thread holds blocks for
\* ever, or its lock() panics: the build decides.
ViewDump ==
    /\ hist = <<>>
    /\ \E self \in Scopes(sc) :
        LET r == dump(sc, self) IN
        \E res \in (IF r.res = "ok" THEN {"ok"} ELSE {"deadlock", "panic"}) :
            hist' = <<Call("dump", self, <<>>, None, NoScope, FALSE, res,
                           IF res = "ok" THEN r.map ELSE NoMap)>>
    /\ UNCHANGED <<sc, last, pre, lock, thr, rest>>

ViewGet ==
    /\ Len(hist) = 1
    /\ hist[1].res = "ok"
    /\ \E n \in Names :
        hist' = Append(hist, Call("get", hist[1].self, <<n>>, None, NoScope, FALSE, "ok",
                                  get(sc, hist[1].self, n)))
    /\ UNCHANGED <<sc, last, pre, lock, thr, rest>>

NextView ==
    \/ ViewBuild
    \/ ViewDump
    \/ ViewGet

SpecView == Init /\ [][NextView]_vars

(***************************************************************************)
(* Several threads.  The scope graph is built by one caller (ConcBuild)    *)
(* before the threads start; then every thread is given one operation      *)
(* (ConcStart) and runs it step by step.  A step is the acquisition of a   *)
(* scope's mutex (ConcLock), or the code between two acquisitions, the     *)
(* release of the mutex included where the code releases it.  A thread's   *)
(* stack holds one frame for each method call that has not returned: the   *)
(* method, the place in it, self, the arguments, and for the loops over    *)
(* uses the cloned list and the position in it.                            *)
(***************************************************************************)
\* Size of the scope graph that is built before the threads start.
MaxConcSize == 2
\* Frames of a call stack; a call that would need more overflows the stack.
\* A get that returns has no more frames than there are scopes.
MaxStack == MaxScopes + 1

\* Values of the graph the threads start from, and what the threads are
\* given: the value they declare or set, the paths they name.
ConcValues == {IntegerV(1), TextV(1)}
ThreadValues == {IntegerV(2)}
ThreadPaths == {<<"x">>, <<"y", "x">>}

Frame(fn, pc, self, name, value) ==
    [fn |-> fn, pc |-> pc, self |-> self, name |-> name, value |-> value,
     uses |-> <<>>, i |-> 0]

Top(T) == T.stack[Len(T.stack)]
WithTop(T, f) == [T EXCEPT !.stack[Len(T.stack)] = f]

\* The top frame returns: the caller finds the result in ret; the return of
\* the last frame ends the thread's operation.
Returned(T, res, val) ==
    IF Len(T.stack) = 1
    THEN [T EXCEPT !.stack = <<>>, !.ret = NoRet, !.call.res = res, !.call.ret = val]
    ELSE [T EXCEPT !.stack = SubSeq(@, 1, Len(@) - 1), !.ret = [res |-> res, val |-> val]]

\* The top frame calls: the frames of the callee are pushed.
Called(T, frames) ==
    IF Len(T.stack) + Len(frames) > MaxStack
    THEN [T EXCEPT !.stack = <<>>, !.ret = NoRet, !.call.res = "overflow", !.call.ret = Overflow]
    ELSE [T EXCEPT !.stack = @ \o frames, !.ret = NoRet]

\* The frames of a call of declare, set or remove: a single name goes to
\* the lock of self, a dotted name first calls self.get(name[0]).
Enter(fn, self, name, value) ==
    IF Len(name) = 1 THEN <<Frame(fn, "lock", self, name, value)>>
    ELSE <<Frame(fn, "resolved", self, name, value),
           Frame("get", "lock", self, <<name[1]>>, None)>>

\* The threads run once each of them has its operation.
\* The operations a thread may be given.  The threads are interchangeable,
\* so the operations are handed out in the order of this list.
Ops == <<"create_child", "create_namespace", "declare", "set", "remove", "get", "use",
         "readonly", "is_stopped", "do_break", "do_continue", "dump">>

Rank(op) == CHOOSE i \in 1..Len(Ops) : Ops[i] = op

InOrder(T) ==
    \A t \in Threads \ {1} :
        T[t] # Idle => T[t - 1] # Idle /\ Rank(T[t - 1].call.op) <= Rank(T[t].call.op)

At(t, fns, pcs) ==
    /\ \A u \in Threads : thr[u] # Idle
    /\ thr[t].stack # <<>>
    /\ Top(thr[t]).fn \in fns
    /\ Top(thr[t]).pc \in pcs

HeldBy(t) == {s \in 1..MaxScopes : lock[s] = t}

ConcBuild ==
    /\ \A t \in Threads : thr[t] = Idle
    /\ \E g2 \in CallsWith(sc, ConcValues) :
        /\ g2 # sc
        /\ GraphSize(g2) <= MaxConcSize
        /\ sc' = g2
    /\ UNCHANGED <<last, pre, hist, lock, thr, rest>>

\* A thread is given its operation.  create_child takes no lock and is one
\* step; create_namespace makes the new scope and calls declare.
ConcStart ==
    \E t \in Threads, self \in Scopes(sc) :
        /\ thr[t] = Idle
        /\ \/ \E caller \in {self}, is_loop \in BOOLEAN :
                /\ Len(sc) < MaxScopes
                /\ sc' = create_child(sc, self, caller, is_loop)
                /\ thr' = [thr EXCEPT ![t].call =
                       Call("create_child", self, <<>>, None, caller, is_loop, "ok",
                            ScopeV(Len(sc) + 1))]
           \/ \E name \in {"y"} :
                /\ Len(sc) < MaxScopes
                /\ sc' = Append(sc, ScopeData_new(NoScope, NoScope, FALSE))
                /\ thr' = [thr EXCEPT ![t] = Called(
                       [@ EXCEPT !.call = Call("create_namespace", self, <<name>>, None,
                                               NoScope, FALSE, "", None)],
                       Enter("declare", self, <<name>>, ScopeV(Len(sc) + 1)))]
           \/ \E op \in {"declare", "set"}, name \in ThreadPaths, value \in ThreadValues :
                /\ thr' = [thr EXCEPT ![t] = Called(
                       [@ EXCEPT !.call = Call(op, self, name, value, NoScope, FALSE, "", None)],
                       Enter(op, self, name, value))]
                /\ UNCHANGED sc
           \/ \E name \in ThreadPaths :
                /\ thr' = [thr EXCEPT ![t] = Called(
                       [@ EXCEPT !.call = Call("remove", self, name, None, NoScope, FALSE, "", None)],
                       Enter("remove", self, name, None))]
                /\ UNCHANGED sc
           \/ \E name \in Names :
                /\ thr' = [thr EXCEPT ![t] = Called(
                       [@ EXCEPT !.call = Call("get", self, <<name>>, None, NoScope, FALSE, "", None)],
                       <<Frame("get", "lock", self, <<name>>, None)>>)]
                /\ UNCHANGED sc
           \/ \E other \in Scopes(sc) :
                /\ thr' = [thr EXCEPT ![t] = Called(
                       [@ EXCEPT !.call = Call("use", self, <<>>, None, other, FALSE, "", None)],
                       <<Frame("use", "lock", self, <<>>, ScopeV(other))>>)]
                /\ UNCHANGED sc
           \/ \E op \in {"readonly", "is_stopped", "do_break", "do_continue"} :
                /\ thr' = [thr EXCEPT ![t] = Called(
                       [@ EXCEPT !.call = Call(op, self, <<>>, None, NoScope, FALSE, "", None)],
                       <<Frame(op, "lock", self, <<>>, None)>>)]
                /\ UNCHANGED sc
           \/ /\ thr' = [thr EXCEPT ![t] = Called(
                       [@ EXCEPT !.call = Call("dump", self, <<>>, None, NoScope, FALSE, "", None)],
                       <<Frame("dump", "lock1", self, <<>>, None)>>)]
              /\ UNCHANGED sc
        /\ InOrder(thr')
        /\ UNCHANGED <<last, pre, hist, lock, rest>>

\* self.data.lock(): the thread goes on when the mutex is free.
LockPcs == {"lock", "lock1", "lock2", "lock3"}

AfterLock(pc) ==
    CASE pc = "lock"  -> "locked"
      [] pc = "lock1" -> "locked1"
      [] pc = "lock2" -> "locked2"
      [] pc = "lock3" -> "locked3"

ConcLock ==
    \E t \in Threads :
        /\ At(t, {"get", "declare", "set", "remove", "use", "readonly", "is_stopped",
                  "do_break", "do_continue", "dump"}, LockPcs)
        /\ LET f == Top(thr[t]) IN
           /\ lock[f.self] = NoThread
           /\ lock' = [lock EXCEPT ![f.self] = t]
           /\ thr' = [thr EXCEPT ![t] = WithTop(@, [f EXCEPT !.pc = AfterLock(f.pc)])]
        /\ UNCHANGED <<sc, last, pre, hist, rest>>

\* .unwrap() of a lock() that fails: the mutex is poisoned, or the thread
\* holds it already and the build's lock() panics for that instead of
\* blocking for ever.  The panic unwinds the thread's stack: its guards are
\* dropped and leave their mutexes poisoned.
ConcPanic ==
    \E t \in Threads :
        /\ At(t, {"get", "declare", "set", "remove", "use", "readonly", "is_stopped",
                  "do_break", "do_continue", "dump"}, LockPcs)
        /\ lock[Top(thr[t]).self] \in {t, Poisoned}
        /\ lock' = [s \in 1..MaxScopes |-> IF lock[s] = t THEN Poisoned ELSE lock[s]]
        /\ thr' = [thr EXCEPT ![t] =
               [@ EXCEPT !.stack = <<>>, !.ret = NoRet, !.call.res = "panic"]]
        /\ UNCHANGED <<sc, last, pre, hist, rest>>

\* What a thread does between two lock operations: the code that follows
\* the return of a call or the end of a lock section and touches nothing
\* but the thread's own stack.
\*   get        the loop over the cloned uses (lines 262-267)
\*   declare, set, remove
\*              the match on self.get(name[0]) (lines 162-166, 182-186,
\*              224-228)
\*   do_break, do_continue
\*              the test of what the caller returned (lines 99, 121)
\*   dump       the next u.dump(map) of the loop of line 283
RECURSIVE Settle(_)
Settle(T) ==
    IF T.stack = <<>> THEN T
    ELSE LET f == Top(T)
             env == T.ret.val
             T1 == [T EXCEPT !.stack = SubSeq(@, 1, Len(@) - 1)]
         IN  CASE f.fn = "get" /\ f.pc = "uses" ->
                   IF f.i > Len(f.uses) THEN Settle(Returned(T, "ok", None))
                   ELSE Called(WithTop(T, [f EXCEPT !.pc = "used"]),
                               <<Frame("get", "lock", f.uses[f.i], f.name, None)>>)
               [] f.fn = "get" /\ f.pc = "used" ->
                   IF T.ret.val # None THEN Settle(Returned(T, "ok", T.ret.val))
                   ELSE Settle(WithTop([T EXCEPT !.ret = NoRet],
                                       [f EXCEPT !.i = @ + 1, !.pc = "uses"]))
               [] f.pc = "resolved" ->
                   IF env = None
                   THEN Settle(Returned(T, IF f.fn = "remove" THEN "ok"
                                           ELSE "not_a_namespace", None))
                   ELSE IF env.type = "scope"
                   THEN Called(T1, Enter(f.fn, env.val, Tail(f.name), f.value))
                   ELSE Settle(Returned(T, IF f.fn = "remove" THEN "ok"
                                           ELSE "unknown_namespace", None))
               [] f.pc = "asked" ->
                   IF T.ret.res # "true" THEN Settle(Returned(T, "false", None))
                   ELSE WithTop([T EXCEPT !.ret = NoRet], [f EXCEPT !.pc = "lock2"])
               [] f.fn = "dump" /\ f.pc = "loop2" /\ f.i <= Len(f.uses) ->
                   Called(WithTop(T, [f EXCEPT !.i = @ + 1]),
                          <<Frame("dump", "lock1", f.uses[f.i], <<>>, None)>>)
               [] OTHER -> T

\* Scope::get: lines 252-261 under the lock taken at line 251.
ConcGet ==
    \E t \in Threads :
        /\ At(t, {"get"}, {"locked"})
        /\ LET T == thr[t]
               f == Top(T)
               data == sc[f.self]
               n == f.name[1]
           IN  /\ lock' = [lock EXCEPT ![f.self] = NoThread]
               /\ thr' = [thr EXCEPT ![t] = Settle(
                      IF data.mapping[n] # None THEN Returned(T, "ok", data.mapping[n])
                      ELSE IF data.parent_scope # NoScope
                      THEN WithTop(T, [f EXCEPT !.self = data.parent_scope, !.pc = "lock"])
                      ELSE WithTop(T, [f EXCEPT !.uses = data.uses, !.i = 1, !.pc = "uses"]))]
        /\ UNCHANGED <<sc, last, pre, hist, rest>>

\* Scope::declare of a single name: lines 153-160 under the lock taken at
\* line 152.
ConcDeclare ==
    \E t \in Threads :
        /\ At(t, {"declare"}, {"locked"})
        /\ LET T == thr[t]
               f == Top(T)
               r == declare_locked(sc[f.self], f.name[1], f.value)
           IN  /\ sc' = [sc EXCEPT ![f.self] = r.data]
               /\ lock' = [lock EXCEPT ![f.self] = NoThread]
               /\ thr' = [thr EXCEPT ![t] = Settle(
                      Returned(T, r.res,
                               IF T.call.op = "create_namespace" /\ r.res = "ok"
                               THEN f.value ELSE None))]
        /\ UNCHANGED <<last, pre, hist, rest>>

\* Scope::set_on_data: lines 192-209 under the lock taken at line 191; the
\* parent is called after the lock is dropped.
ConcSet ==
    \E t \in Threads :
        /\ At(t, {"set"}, {"locked"})
        /\ LET T == thr[t]
               f == Top(T)
               r == set_on_data_locked(sc[f.self], f.name[1], f.value)
           IN  /\ sc' = [sc EXCEPT ![f.self] = r.data]
               /\ lock' = [lock EXCEPT ![f.self] = NoThread]
               /\ thr' = [thr EXCEPT ![t] = Settle(
                      IF r.res = "parent"
                      THEN WithTop(T, [f EXCEPT !.self = sc[f.self].parent_scope, !.pc = "lock"])
                      ELSE Returned(T, r.res, None))]
        /\ UNCHANGED <<last, pre, hist, rest>>

\* Scope::remove_here: lines 234-247 under the lock taken at line 233.
ConcRemove ==
    \E t \in Threads :
        /\ At(t, {"remove"}, {"locked"})
        /\ LET T == thr[t]
               f == Top(T)
               r == remove_here_locked(sc[f.self], f.name[1])
           IN  /\ sc' = [sc EXCEPT ![f.self] = r.data]
               /\ lock' = [lock EXCEPT ![f.self] = NoThread]
               /\ thr' = [thr EXCEPT ![t] = Settle(
                      IF r.res = "parent"
                      THEN WithTop(T, [f EXCEPT !.self = sc[f.self].parent_scope, !.pc = "lock"])
                      ELSE Returned(T, "ok", r.ret))]
        /\ UNCHANGED <<last, pre, hist, rest>>

\* Scope::use, Scope::readonly, Scope::is_stopped: one statement under the
\* lock.
ConcSimple ==
    \E t \in Threads :
        /\ At(t, {"use", "readonly", "is_stopped"}, {"locked"})
        /\ LET T == thr[t]
               f == Top(T)
           IN  /\ sc' = CASE f.fn = "use" -> use(sc, f.self, f.value.val)
                          [] f.fn = "readonly" -> readonly(sc, f.self)
                          [] f.fn = "is_stopped" -> sc
               /\ lock' = [lock EXCEPT ![f.self] = NoThread]
               /\ thr' = [thr EXCEPT ![t] = Settle(
                      Returned(T, IF f.fn = "is_stopped" THEN Bool(is_stopped(sc, f.self))
                                  ELSE "ok", None))]
        /\ UNCHANGED <<last, pre, hist, rest>>

\* Scope::do_break and Scope::do_continue: the first lock section (the
\* caller is called once the lock is dropped), and the lock section of
\* lines 102 and 124.
ConcBreak ==
    \E t \in Threads :
        /\ At(t, {"do_break", "do_continue"}, {"locked", "locked2"})
        /\ LET T == thr[t]
               f == Top(T)
               data == sc[f.self]
               r == IF f.fn = "do_break" THEN do_break_locked(data)
                    ELSE do_continue_locked(data)
               caller == caller_of(data)
           IN  /\ lock' = [lock EXCEPT ![f.self] = NoThread]
               /\ IF f.pc = "locked"
                  THEN /\ sc' = [sc EXCEPT ![f.self] = r.data]
                       /\ thr' = [thr EXCEPT ![t] = Settle(
                              IF r.res # "caller" THEN Returned(T, r.res, None)
                              ELSE IF caller = NoScope THEN Returned(T, "false", None)
                              ELSE Called(WithTop(T, [f EXCEPT !.pc = "asked"]),
                                          <<Frame(f.fn, "lock", caller, <<>>, None)>>))]
                  ELSE /\ sc' = [sc EXCEPT ![f.self] = mark_stopped(data)]
                       /\ thr' = [thr EXCEPT ![t] = Settle(Returned(T, "true", None))]
        /\ UNCHANGED <<last, pre, hist, rest>>

\* Scope::dump.  The guard of line 278 is a temporary of the match: it is
\* dropped at the end of the match, after p.dump(map) has returned.  The
\* guard of line 283 is a temporary of the for: it is dropped at the end of
\* the loop, after every u.dump(map) has returned.  The guard of line 287
\* is dropped at the end of the method.
ConcDump ==
    \E t \in Threads :
        /\ At(t, {"dump"}, {"locked1", "unlock1", "locked2", "loop2", "locked3"})
        /\ LET T == thr[t]
               f == Top(T)
               data == sc[f.self]
           IN  CASE f.pc = "locked1" ->
                     IF data.parent_scope # NoScope
                     THEN /\ thr' = [thr EXCEPT ![t] =
                                 Called(WithTop(T, [f EXCEPT !.pc = "unlock1"]),
                                        <<Frame("dump", "lock1", data.parent_scope, <<>>, None)>>)]
                          /\ UNCHANGED lock
                     ELSE /\ thr' = [thr EXCEPT ![t] = WithTop(T, [f EXCEPT !.pc = "lock2"])]
                          /\ lock' = [lock EXCEPT ![f.self] = NoThread]
                 [] f.pc = "unlock1" ->
                     /\ thr' = [thr EXCEPT ![t] =
                            WithTop([T EXCEPT !.ret = NoRet], [f EXCEPT !.pc = "lock2"])]
                     /\ lock' = [lock EXCEPT ![f.self] = NoThread]
                 [] f.pc = "locked2" ->
                     /\ thr' = [thr EXCEPT ![t] = Settle(
                            WithTop(T, [f EXCEPT !.uses = Reverse(data.uses), !.i = 1,
                                                 !.pc = "loop2"]))]
                     /\ UNCHANGED lock
                 [] f.pc = "loop2" ->
                     /\ f.i > Len(f.uses)
                     /\ thr' = [thr EXCEPT ![t] =
                            WithTop([T EXCEPT !.ret = NoRet], [f EXCEPT !.pc = "lock3"])]
                     /\ lock' = [lock EXCEPT ![f.self] = NoThread]
                 [] f.pc = "locked3" ->
                     /\ thr' = [thr EXCEPT ![t] = Settle(
                            Returned([T EXCEPT !.map = [n \in Names |->
                                          IF data.mapping[n] # None
                                          THEN value_type(data.mapping[n])
                                          ELSE T.map[n]]],
                                     "ok", None))]
                     /\ lock' = [lock EXCEPT ![f.self] = NoThread]
        /\ UNCHANGED <<sc, last, pre, hist, rest>>

NextConc ==
    \/ ConcBuild
    \/ ConcStart
    \/ ConcLock
    \/ ConcPanic
    \/ ConcGet
    \/ ConcDeclare
    \/ ConcSet
    \/ ConcRemove
    \/ ConcSimple
    \/ ConcBreak
    \/ ConcDump

SpecConc == Init /\ [][NextConc]_vars

(***************************************************************************)
(* What the claims speak of: the parent chain and the calling chain of a   *)
(* scope, the nearest scope of the parent chain that binds a name, and the *)
(* scope a path-taking method starts its single-name search in.            *)
(***************************************************************************)
RECURSIVE ParentChain(_, _)
ParentChain(g, s) ==
    IF g[s].parent_scope = NoScope THEN <<s>>
    ELSE <<s>> \o ParentChain(g, g[s].parent_scope)

RECURSIVE CallingChain(_, _)
CallingChain(g, s) ==
    IF g[s].calling_scope = NoScope THEN <<s>>
    ELSE <<s>> \o CallingChain(g, g[s].calling_scope)

NearestBinder(g, s, n) ==
    LET chain == ParentChain(g, s)
        idx == {i \in 1..Len(chain) : g[chain[i]].mapping[n] # None}
    IN  IF idx = {} THEN NoScope ELSE chain[Min(idx)]

TargetStart(g, self, path) ==
    IF Len(path) = 1 THEN self
    ELSE LET env == get(g, self, path[1]) IN
         IF env.type = "scope" THEN env.val ELSE NoScope

Binder(g, self, path) ==
    LET start == TargetStart(g, self, path) IN
    IF start = NoScope THEN NoScope ELSE NearestBinder(g, start, path[Len(path)])

\* The request reaches a loop scope on the calling chain, and no scope up
\* to and including that one is read-only.
Honored(g, s) ==
    LET chain == CallingChain(g, s) IN
    \E k \in 1..Len(chain) :
        /\ g[chain[k]].is_loop
        /\ \A j \in 1..k : ~g[chain[j]].is_readonly

\* A thread waits: it is at a lock() of a mutex that a thread holds.
Waiting(t) ==
    /\ thr[t].stack # <<>>
    /\ Top(thr[t]).pc \in LockPcs
    /\ lock[Top(thr[t]).self] \in Threads

\* Each thread of W waits for a mutex that a thread of W holds.
Deadlocked(W) ==
    /\ W # {}
    /\ \A t \in W : Waiting(t) /\ lock[Top(thr[t]).self] \in W

(***************************************************************************)
(* C1.  While it runs a scope operation, a thread never holds the lock of  *)
(* more than one scope at the same time.                                   *)
(***************************************************************************)
C1_OneLockPerThread ==
    \A t \in Threads : Cardinality(HeldBy(t)) <= 1

(***************************************************************************)
(* C2.  Scope operations are deadlock-free: no thread waits for ever for   *)
(* a scope lock that is held by itself or by another waiting thread.       *)
(***************************************************************************)
C2_DeadlockFree ==
    \A W \in SUBSET Threads : ~Deadlocked(W)

(***************************************************************************)
(* C3.  In a fresh scope, declare(n, v) succeeds, then get(n) returns      *)
(* Some(v), then remove(n) returns v, then get(n) returns None.            *)
(***************************************************************************)
C3_RoundTrip ==
    /\ Len(hist) >= 1 => hist[1].res = "ok"
    /\ Len(hist) >= 2 => hist[2].ret = hist[1].value
    /\ Len(hist) >= 3 => hist[3].ret = hist[1].value
    /\ Len(hist) >= 4 => hist[4].ret = None

C3_Witness ==
    /\ Len(hist) = 4
    /\ hist[3].op = "remove"
    /\ hist[3].ret = hist[1].value
    /\ hist[4].ret = None

(***************************************************************************)
(* C4.  A set that succeeds leaves the type of every binding what it was.  *)
(* A set whose value type differs from the type of the binding it would    *)
(* update fails and changes nothing: with the type-mismatch error when the *)
(* scope of that binding is not read-only, with the read-only error when   *)
(* it is.                                                                  *)
(***************************************************************************)
C4_TypePreserved ==
    last.op = "set" =>
        /\ last.res = "ok" =>
              \A s \in Scopes(pre), n \in Names :
                  pre[s].mapping[n] # None =>
                      value_type(sc[s].mapping[n]) = value_type(pre[s].mapping[n])
        /\ LET b == Binder(pre, last.self, last.name)
               n == last.name[Len(last.name)]
           IN  (b # NoScope /\ value_type(pre[b].mapping[n]) # value_type(last.value)) =>
                   /\ last.res = IF pre[b].is_readonly THEN "read_only" ELSE "type_mismatch"
                   /\ sc = pre

C4_Witness ==
    /\ last.op = "set"
    /\ Binder(pre, last.self, last.name) # NoScope
    /\ last.res = "type_mismatch"
    /\ sc = pre

\* C4 as the claim states it: a set whose value type differs from the type
\* of the existing binding fails with the type-mismatch error.
C4_Original ==
    last.op = "set" =>
        /\ last.res = "ok" =>
              \A s \in Scopes(pre), n \in Names :
                  pre[s].mapping[n] # None =>
                      value_type(sc[s].mapping[n]) = value_type(pre[s].mapping[n])
        /\ LET b == Binder(pre, last.self, last.name)
               n == last.name[Len(last.name)]
           IN  (b # NoScope /\ value_type(pre[b].mapping[n]) # value_type(last.value)) =>
                   /\ last.res = "type_mismatch"
                   /\ sc = pre

\* C4 for interleaved calls: no step of a thread, which is one lock section
\* of one call, changes the type of a binding that is there before and
\* after it.
C4_TypeKeptInEveryStep ==
    [][\A s \in Scopes(sc), n \in Names :
          (sc[s].mapping[n] # None /\ sc'[s].mapping[n] # None) =>
              value_type(sc'[s].mapping[n]) = value_type(sc[s].mapping[n])]_vars

(***************************************************************************)
(* C5.  declare of a single name fails when the name is bound in the local *)
(* mapping of the scope, and then changes nothing; a name that is not      *)
(* bound locally is declared (in a scope that is not read-only) whatever   *)
(* the ancestors and the imported scopes bind.                             *)
(***************************************************************************)
C5_DeclareExisting ==
    (last.op = "declare" /\ Len(last.name) = 1) =>
        LET s == last.self
            n == last.name[1]
        IN  /\ pre[s].mapping[n] # None => (last.res # "ok" /\ sc = pre)
            /\ (pre[s].mapping[n] = None /\ ~pre[s].is_readonly) =>
                   /\ last.res = "ok"
                   /\ sc = [pre EXCEPT ![s].mapping[n] = last.value]

C5_Witness ==
    /\ last.op = "declare"
    /\ Len(last.name) = 1
    /\ pre[last.self].mapping[last.name[1]] # None
    /\ ~pre[last.self].is_readonly
    /\ last.res = "already_exists"

\* The other case of C5: the new binding shadows the one of the parent.
C5_ShadowReached ==
    /\ last.op = "declare"
    /\ Len(last.name) = 1
    /\ pre[last.self].parent_scope # NoScope
    /\ get(pre, last.self, last.name[1]) \notin {None, Overflow}
    /\ last.res = "ok"

(***************************************************************************)
(* C6.  A read-only scope keeps its mapping and stays read-only, whatever  *)
(* is called; a declare into it, and a set or a remove of a binding that   *)
(* lives in it, report failure.                                            *)
(***************************************************************************)
C6_ReadonlySealed ==
    last.op # "none" =>
        /\ \A s \in Scopes(pre) :
              pre[s].is_readonly =>
                  (sc[s].mapping = pre[s].mapping /\ sc[s].is_readonly)
        /\ last.op \in {"declare", "create_namespace"} =>
              LET t == TargetStart(pre, last.self, last.name) IN
              (t # NoScope /\ pre[t].is_readonly) => last.res # "ok"
        /\ last.op = "set" =>
              LET b == Binder(pre, last.self, last.name) IN
              (b # NoScope /\ pre[b].is_readonly) => last.res # "ok"
        /\ last.op = "remove" =>
              LET b == Binder(pre, last.self, last.name) IN
              (b # NoScope /\ pre[b].is_readonly) => last.ret = None

C6_Witness ==
    /\ last.op = "set"
    /\ LET b == Binder(pre, last.self, last.name) IN
       /\ b # NoScope
       /\ pre[b].is_readonly
       /\ value_type(pre[b].mapping[last.name[Len(last.name)]]) = value_type(last.value)
    /\ last.res = "read_only"

\* C6 for interleaved calls: no step of a thread changes the mapping of a
\* scope that is read-only, or makes it writable again.
C6_SealedInEveryStep ==
    [][\A s \in Scopes(sc) :
          sc[s].is_readonly => (sc'[s].mapping = sc[s].mapping /\ sc'[s].is_readonly)]_vars

(***************************************************************************)
(* C7.  get(name) on S returns the local binding, else what the lookup in  *)
(* the parent finds, else what the earliest imported scope that resolves   *)
(* the name finds, whether or not S has a parent.                          *)
(***************************************************************************)
C7_GetSearchOrder ==
    \A S \in Scopes(sc), n \in Names :
        LET d == sc[S]
            viaParent == IF d.parent_scope # NoScope THEN get(sc, d.parent_scope, n) ELSE None
            resolving == {i \in 1..Len(d.uses) : get(sc, d.uses[i], n) # None}
            viaUses == IF resolving = {} THEN None ELSE get(sc, d.uses[Min(resolving)], n)
            expected == IF d.mapping[n] # None THEN d.mapping[n]
                        ELSE IF viaParent # None THEN viaParent
                        ELSE viaUses
        IN  (get(sc, S, n) # Overflow /\ expected # Overflow) => get(sc, S, n) = expected

C9_RemoveNearest ==
    (last.op = "remove" /\ Len(last.name) = 1) =>
        LET n == last.name[1]
            t == NearestBinder(pre, last.self, n)
        IN  IF t = NoScope \/ pre[t].is_readonly THEN last.ret = None /\ sc = pre
            ELSE /\ last.ret = pre[t].mapping[n]
                 /\ sc = [pre EXCEPT ![t].mapping[n] = None]

C9_Witness ==
    /\ last.op = "remove"
    /\ Len(last.name) = 1
    /\ last.ret # None
    /\ sc[last.self].mapping[last.name[1]] = None
    /\ get(sc, last.self, last.name[1]) \notin {None, Overflow}

(***************************************************************************)
(* C10.  do_break and do_continue return true exactly when the calling     *)
(* chain of the scope reaches a loop scope before a read-only scope and    *)
(* before its end; the parent chain plays no part.                         *)
(***************************************************************************)
C10_BreakContinue ==
    last.op \in {"do_break", "do_continue"} =>
        ((last.res = "true") <=> Honored(pre, last.self))

C10_Witness ==
    /\ last.op = "do_break"
    /\ last.res = "false"
    /\ ~pre[last.self].is_readonly
    /\ LET chain == ParentChain(pre, last.self) IN
       \E k \in 1..Len(chain) :
           /\ pre[chain[k]].is_loop
           /\ \A j \in 1..k : ~pre[chain[j]].is_readonly

(***************************************************************************)
(* string() (src/src/lang/execute.rs) and JobJoinHandle::join              *)
(* (src/src/commands/mod.rs).                                              *)
(*                                                                         *)
(* A script is what parse returns, and for every job what its invoke       *)
(* returns: an error, or the tree of join handles of the workers it        *)
(* spawned.  A worker runs until it exits, with Ok, with an error or with  *)
(* a panic; JoinHandle::join returns once the worker has exited.           *)
(***************************************************************************)
\* Jobs of a script; depth of a handle tree and handles of a Many.
MaxJobs == 2
MaxDepth == 2
MaxWidth == 2

Async == [kind |-> "Async", v |-> <<>>]
Many(v) == [kind |-> "Many", v |-> v]

SeqUpTo(S, n) == UNION {[1..k -> S] : k \in 0..n}

RECURSIVE HandlesOfDepth(_)
HandlesOfDepth(d) ==
    IF d = 0 THEN {Async}
    ELSE LET H == HandlesOfDepth(d - 1) IN
         H \cup {Many(v) : v \in SeqUpTo(H, MaxWidth)}

Handles == HandlesOfDepth(MaxDepth)

JobDefinitions ==
    {[invoke |-> "error", handle |-> Many(<<>>)]}
    \cup {[invoke |-> "ok", handle |-> h] : h \in Handles}

Scripts ==
    {[parse |-> "error", jobs |-> <<>>]}
    \cup {[parse |-> "ok", jobs |-> js] : js \in SeqUpTo(JobDefinitions, MaxJobs)}

\* The Async handles of a tree, each named by the path that leads to it.
RECURSIVE LeavesOf(_, _)
LeavesOf(h, path) ==
    IF h.kind = "Async" THEN {path}
    ELSE UNION {LeavesOf(h.v[k], Append(path, k)) : k \in 1..Len(h.v)}

Event(ev, job, leaf) == [ev |-> ev, job |-> job, leaf |-> leaf]

PrinterCalls == {"job_error", "error", "crush_error"}

\* The loop of line 59 goes on to the next job, or string() returns.
NextJob(i) ==
    IF i + 1 > Len(script.jobs) THEN [pc |-> "done", i |-> i + 1, stack |-> <<>>]
    ELSE [pc |-> "invoke", i |-> i + 1, stack |-> <<>>]

\* Line 65 prints the error of an invoke once; twice would be one call
\* too many.
invoke_Err_twice(job) ==
    <<Event("invoke", job, <<>>), Event("crush_error", job, <<>>),
      Event("crush_error", job, <<>>)>>

\* What an invoke that returns an error leaves behind: the error, printed
\* (line 65), and no handle.
invoke_Err(job) ==
    <<Event("invoke", job, <<>>), Event("crush_error", job, <<>>)>>

\* A join that swallows a panic, unlike line 80.
join_Async_quiet(r, job, leaf) ==
    CASE r = "ok" -> <<Event("join", job, leaf)>>
      [] r = "err" -> <<Event("join", job, leaf), Event("job_error", job, leaf)>>
      [] r = "panic" -> <<Event("join", job, leaf)>>

\* JobJoinHandle::join of an Async whose worker has exited with r, lines
\* 75-81.
join_Async(r, job, leaf) ==
    CASE r = "ok" -> <<Event("join", job, leaf)>>
      [] r = "err" -> <<Event("join", job, leaf), Event("job_error", job, leaf)>>
      [] r = "panic" -> <<Event("join", job, leaf), Event("error", job, leaf)>>

\* A join that leaves a Many after its first handle, unlike lines 83-85.
join_Many_first(top, stack) ==
    [k \in 1..Min({1, Len(top.h.v)}) |->
        [h |-> top.h.v[k], path |-> Append(top.path, k)]] \o stack

\* JobJoinHandle::join of a Many, lines 82-86: its handles are joined in
\* order, before whatever the callers have left to join.
join_Many(top, stack) ==
    [k \in 1..Len(top.h.v) |->
        [h |-> top.h.v[k], path |-> Append(top.path, k)]] \o stack

InitExec ==
    /\ ScopeIdle
    /\ DropIdle
    /\ CmdIdle
    /\ TypeIdle
    /\ PupIdle
    /\ script \in Scripts
    /\ ctl = [pc |-> "parse", i |-> 0, stack |-> <<>>]
    /\ workers = <<>>
    /\ log = <<>>

\* match parse(s, &global_env), lines 57 and 69-71.
ExecParse ==
    /\ ctl.pc = "parse"
    /\ IF script.parse = "error"
       THEN /\ log' = Append(log, Event("crush_error", 0, <<>>))
            /\ ctl' = [pc |-> "done", i |-> 0, stack |-> <<>>]
       ELSE /\ log' = log
            /\ ctl' = NextJob(0)
    /\ UNCHANGED <<scopeVars, dropVars, pureVars, script, workers>>

\* job_definition.invoke(...), lines 60-66: an error is printed; a handle
\* is joined, and the workers behind it run.
ExecInvoke ==
    /\ ctl.pc = "invoke"
    /\ LET job == script.jobs[ctl.i] IN
       IF job.invoke = "error"
       THEN /\ log' = log \o invoke_Err(ctl.i)
            /\ ctl' = NextJob(ctl.i)
            /\ UNCHANGED workers
       ELSE /\ log' = Append(log, Event("invoke", ctl.i, <<>>))
            /\ ctl' = [pc |-> "join", i |-> ctl.i,
                       stack |-> <<[h |-> job.handle, path |-> <<>>]>>]
            /\ workers' = [id \in DOMAIN workers
                                  \cup {<<ctl.i, l>> : l \in LeavesOf(job.handle, <<>>)} |->
                              IF id \in DOMAIN workers THEN workers[id] ELSE "running"]
    /\ UNCHANGED <<scopeVars, dropVars, pureVars, script>>

\* A worker exits.
WorkerExit ==
    /\ \E id \in DOMAIN workers, r \in {"ok", "err", "panic"} :
        /\ workers[id] = "running"
        /\ workers' = [workers EXCEPT ![id] = r]
    /\ UNCHANGED <<scopeVars, dropVars, pureVars, script, ctl, log>>

\* JobJoinHandle::join of the handle on top of the stack: a Many joins its
\* handles in order (lines 82-86), an Async waits for its worker and prints
\* what went wrong (lines 75-81).
ExecJoin ==
    /\ ctl.pc = "join"
    /\ LET top == Head(ctl.stack)
           id == <<ctl.i, top.path>>
       IN  IF top.h.kind = "Many"
           THEN LET stack == join_Many(top, Tail(ctl.stack))
                IN  /\ ctl' = IF stack = <<>> THEN NextJob(ctl.i)
                              ELSE [ctl EXCEPT !.stack = stack]
                    /\ UNCHANGED log
           ELSE /\ workers[id] # "running"
                /\ log' = log \o join_Async(workers[id], ctl.i, top.path)
                /\ ctl' = IF Tail(ctl.stack) = <<>> THEN NextJob(ctl.i)
                          ELSE [ctl EXCEPT !.stack = Tail(@)]
    /\ UNCHANGED <<scopeVars, dropVars, pureVars, script, workers>>

NextExec ==
    \/ ExecParse
    \/ ExecInvoke
    \/ WorkerExit
    \/ ExecJoin

SpecExec == InitExec /\ [][NextExec]_vars

\* The first loop scope of the calling chain of s (NoScope: there is none).
LoopFound(g, s) ==
    LET chain == CallingChain(g, s)
        idx == {k \in 1..Len(chain) : g[chain[k]].is_loop}
    IN  IF idx = {} THEN NoScope ELSE chain[Min(idx)]

(***************************************************************************)
(* C11.  When do_break or do_continue returns true, the loop scope it      *)
(* found, the first loop scope of the calling chain, is stopped            *)
(* afterwards.                                                             *)
(***************************************************************************)
C11_LoopStopped ==
    (last.op \in {"do_break", "do_continue"} /\ last.res = "true") =>
        /\ LoopFound(pre, last.self) # NoScope
        /\ sc[LoopFound(pre, last.self)].is_stopped

(***************************************************************************)
(* What the claims about string() and join speak of.                       *)
(***************************************************************************)
\* The places of the log where ev was recorded for a job, and for one of
\* its workers.
Events(ev, job) ==
    {k \in 1..Len(log) : log[k].ev = ev /\ log[k].job = job}

EventsAt(ev, job, leaf) ==
    {k \in Events(ev, job) : log[k].leaf = leaf}

Jobs == 1..Len(script.jobs)

\* Job i has been invoked, its invoke has returned a handle, and the join
\* of that handle has returned.
Joined(i) == script.jobs[i].invoke = "ok" /\ ctl.i > i

\* The workers of job i that did not return Ok.
Failing(i) ==
    {l \in LeavesOf(script.jobs[i].handle, <<>>) :
        workers[<<i, l>>] \in {"err", "panic"}}

\* C12: once the join of the root of a job's handle tree has returned,
\* every worker of the tree has exited and was joined once, a worker that
\* returned an error has one job_error call and no other, a worker that
\* panicked has one generic error call and no other, a worker that returned
\* Ok has none, and the printer calls of the job are as many as its failing
\* workers.
C12_JoinReports ==
    \A i \in Jobs : Joined(i) =>
        /\ \A l \in LeavesOf(script.jobs[i].handle, <<>>) :
            /\ workers[<<i, l>>] # "running"
            /\ Count(EventsAt("join", i, l)) = 1
            /\ Count(EventsAt("job_error", i, l))
                   = IF workers[<<i, l>>] = "err" THEN 1 ELSE 0
            /\ Count(EventsAt("error", i, l))
                   = IF workers[<<i, l>>] = "panic" THEN 1 ELSE 0
        /\ Count(UNION {Events(ev, i) : ev \in PrinterCalls}) = Count(Failing(i))

\* A tree of nested Many handles has been joined whose workers ended in all
\* three ways.
C12_Witness ==
    \E i \in Jobs :
        /\ Joined(i)
        /\ \E l \in LeavesOf(script.jobs[i].handle, <<>>) : Len(l) = MaxDepth
        /\ {workers[<<i, l>>] : l \in LeavesOf(script.jobs[i].handle, <<>>)}
               = {"ok", "err", "panic"}

\* C13: jobs are invoked in script order, each once; when job i + 1 is
\* invoked, job i has been invoked and either its invoke failed or every
\* worker of its handle tree has been joined; and when string() returns
\* from a script that parsed, every job of it has been invoked, whatever
\* the jobs before it did.
C13_InvokeOrder ==
    /\ \A i \in Jobs : Count(Events("invoke", i)) <= 1
    /\ \A i \in Jobs : \A m \in Events("invoke", i) :
        i > 1 =>
            /\ \E k \in Events("invoke", i - 1) : k < m
            /\ script.jobs[i - 1].invoke = "ok" =>
                   \A l \in LeavesOf(script.jobs[i - 1].handle, <<>>) :
                       \E k \in EventsAt("join", i - 1, l) : k < m
    /\ ctl.pc = "done" => \A i \in Jobs : Count(Events("invoke", i)) = 1

\* string() has returned after a job whose workers failed, or whose invoke
\* failed, and a job after it.
C13_Witness ==
    /\ ctl.pc = "done"
    /\ Len(script.jobs) = MaxJobs
    /\ script.jobs[1].invoke = "ok"
    /\ Count(LeavesOf(script.jobs[1].handle, <<>>)) > 2
    /\ Failing(1) # {}
    /\ Events("invoke", 2) # {}

\* C14: a script that does not parse gets one crush_error and nothing
\* else: no job is invoked.  A job whose invoke returns an error gets one
\* crush_error and no join.  A job whose invoke returns a handle gets no
\* crush_error, and every printer call made for it is made by the join of
\* one of its workers, right after that worker was joined.
C14_ErrorReports ==
    /\ script.parse = "error" =>
        /\ \A k \in 1..Len(log) : log[k] = Event("crush_error", 0, <<>>)
        /\ Len(log) = IF ctl.pc = "done" THEN 1 ELSE 0
    /\ script.parse = "ok" => Events("crush_error", 0) = {}
    /\ \A i \in Jobs : script.jobs[i].invoke = "error" =>
        /\ Count(Events("crush_error", i)) = IF ctl.i > i THEN 1 ELSE 0
        /\ Events("join", i) = {}
        /\ Events("job_error", i) = {}
        /\ Events("error", i) = {}
    /\ \A i \in Jobs : script.jobs[i].invoke = "ok" =>
        /\ Events("crush_error", i) = {}
        /\ \A k \in Events("job_error", i) \cup Events("error", i) :
            /\ k > 1
            /\ log[k - 1] = Event("join", i, log[k].leaf)
            /\ log[k].leaf \in LeavesOf(script.jobs[i].handle, <<>>)

\* string() has returned from a script with a job whose invoke failed and a
\* job whose worker failed.
C14_Witness ==
    /\ ctl.pc = "done"
    /\ \E i \in Jobs : script.jobs[i].invoke = "error"
    /\ \E i \in Jobs : script.jobs[i].invoke = "ok" /\ Failing(i) # {}

\* string() has returned from a script that did not parse.
C14_ParseFailed == ctl.pc = "done" /\ script.parse = "error"

(***************************************************************************)
(* Commands and can_block (src/src/lang/command/mod.rs).                   *)
(*                                                                         *)
(* A command is a SimpleCommand with its static flag, a ConditionCommand,  *)
(* or a BoundCommand around one of these.  An argument expression          *)
(* (ValueDefinition, not in src/) answers can_block for itself.            *)
(***************************************************************************)
\* Argument expressions of a call.
MaxArgs == 3

SimpleCommand(flag) == [kind |-> "simple", can_block |-> flag]
ConditionCommand == [kind |-> "condition"]
BoundCommand(cmd, this) == [kind |-> "bound", command |-> cmd, this |-> this]

ValueDefinitions == {[can_block |-> b] : b \in BOOLEAN}
ArgumentDefinitions == {[value |-> v] : v \in ValueDefinitions}

ValueDefinition_can_block(self, args) == self.can_block

\* SimpleCommand::copy, ConditionCommand::copy, BoundCommand::copy: a new
\* command of the same fields.
RECURSIVE copy(_)
copy(self) ==
    CASE self.kind = "simple" -> SimpleCommand(self.can_block)
      [] self.kind = "condition" -> ConditionCommand
      [] self.kind = "bound" -> BoundCommand(copy(self.command), self.this)

\* bind: a BoundCommand around a copy of the command; a BoundCommand binds
\* a copy of the command it wraps.
bind(self, this) ==
    IF self.kind = "bound" THEN BoundCommand(copy(self.command), this)
    ELSE BoundCommand(copy(self), this)

SimpleCommand_can_block(self, args) == self.can_block

\* A conditional command that asks its first argument only.
ConditionCommand_can_block_first(args) ==
    args # <<>> /\ ValueDefinition_can_block(args[1].value, args)

\* arguments.iter().any(|arg| arg.value.can_block(arguments, context)): the
\* arguments are asked in order, up to the first that answers true.
RECURSIVE any_from(_, _)
any_from(args, k) ==
    IF k > Len(args) THEN FALSE
    ELSE IF ValueDefinition_can_block(args[k].value, args) THEN TRUE
    ELSE any_from(args, k + 1)

ConditionCommand_can_block(args) == any_from(args, 1)

RECURSIVE can_block(_, _)
BoundCommand_can_block(self, args) == can_block(self.command, args)

can_block(self, args) ==
    CASE self.kind = "simple" -> SimpleCommand_can_block(self, args)
      [] self.kind = "condition" -> ConditionCommand_can_block(args)
      [] self.kind = "bound" -> BoundCommand_can_block(self, args)

Commands == {SimpleCommand(b) : b \in BOOLEAN} \cup {ConditionCommand}

\* The times a command is bound.
MaxBinds == 2

\* CommandContext: of its fields, this (Option<Value>).
Contexts == {[this |-> v] : v \in {None} \cup ConcValues}

\* invoke.  SimpleCommand and ConditionCommand call self.call with the
\* context they are given: what ran is that command, with that context.
RECURSIVE invoke(_, _)
SimpleCommand_invoke(self, context) == [call |-> self, this |-> context.this]

ConditionCommand_invoke(self, context) == [call |-> self, this |-> context.this]

\* Mutant of BoundCommand_invoke: a this that the context holds is kept.
BoundCommand_invoke_keeps(self, context) ==
    invoke(self.command, IF context.this = None THEN [context EXCEPT !.this = self.this]
                         ELSE context)

\* context.this = Some(self.this.clone()); self.command.invoke(context)
BoundCommand_invoke(self, context) ==
    invoke(self.command, [context EXCEPT !.this = self.this])

invoke(self, context) ==
    CASE self.kind = "simple" -> SimpleCommand_invoke(self, context)
      [] self.kind = "condition" -> ConditionCommand_invoke(self, context)
      [] self.kind = "bound" -> BoundCommand_invoke(self, context)

InitCmd ==
    /\ ScopeIdle
    /\ ExecIdle
    /\ DropIdle
    /\ TypeIdle
    /\ PupIdle
    /\ command \in Commands
    /\ arguments \in SeqUpTo(ArgumentDefinitions, MaxArgs)
    /\ blocks = <<>>
    /\ receivers = <<>>
    /\ invoked = <<>>

CmdBind ==
    /\ Len(receivers) < MaxBinds
    /\ \E this \in ConcValues :
        /\ command' = bind(command, this)
        /\ receivers' = Append(receivers, this)
    /\ UNCHANGED <<scopeVars, execVars, dropVars, typeVars, pupVars, arguments, blocks,
                   invoked>>

\* command.invoke(context), with a context that holds a this or none.
CmdInvoke ==
    /\ \E context \in Contexts :
        invoked' = <<[command |-> command, context |-> context, receivers |-> receivers,
                      ran |-> invoke(command, context)]>>
    /\ UNCHANGED <<scopeVars, execVars, dropVars, typeVars, pupVars, command, arguments, blocks,
                   receivers>>

CmdCanBlock ==
    /\ blocks' = <<[command |-> command, arguments |-> arguments,
                    res |-> can_block(command, arguments)]>>
    /\ UNCHANGED <<scopeVars, execVars, dropVars, typeVars, pupVars, command, arguments,
                   receivers, invoked>>

NextCmd ==
    \/ CmdBind
    \/ CmdCanBlock
    \/ CmdInvoke

SpecCmd == InitCmd /\ [][NextCmd]_vars

\* Some argument expression of the list answers that it can block.
SomeArgumentBlocks(args) == \E k \in 1..Len(args) : args[k].value.can_block

\* C15: can_block of a conditional command is the disjunction of can_block
\* over the argument expressions, false for no arguments; of a simple
\* command it is the static flag, whatever the arguments; of a bound command
\* it is that of the command it wraps.
C15_CanBlock ==
    \A k \in 1..Len(blocks) :
        LET b == blocks[k]
            of(c) == IF c.kind = "simple" THEN c.can_block
                     ELSE SomeArgumentBlocks(b.arguments)
        IN  /\ b.command.kind = "simple" => b.res = b.command.can_block
            /\ b.command.kind = "condition" => b.res = SomeArgumentBlocks(b.arguments)
            /\ b.command.kind = "condition" /\ b.arguments = <<>> => b.res = FALSE
            /\ b.command.kind = "bound" =>
                   /\ b.command.command.kind \in {"simple", "condition"}
                   /\ b.res = of(b.command.command)

\* A bound conditional command was asked about arguments of which only the
\* last can block.
C15_Witness ==
    /\ blocks # <<>>
    /\ blocks[1].command.kind = "bound"
    /\ blocks[1].command.command.kind = "condition"
    /\ Len(blocks[1].arguments) = MaxArgs
    /\ \A k \in 1..MaxArgs : blocks[1].arguments[k].value.can_block <=> k = MaxArgs
    /\ blocks[1].res

\* A simple command that cannot block was asked about arguments that can.
C15_SimpleAsked ==
    /\ blocks # <<>>
    /\ blocks[1].command.kind = "simple"
    /\ ~blocks[1].command.can_block
    /\ SomeArgumentBlocks(blocks[1].arguments)

(***************************************************************************)
(* The drop stage (src/src/lib/stream/drop.rs), run by a worker whose      *)
(* handle string() joins.                                                  *)
(*                                                                         *)
(* The channels are not in src/.  The input is a value: a stream with a    *)
(* schema and rows that conform to it, or something else, or nothing       *)
(* because the sender is gone.  The output is initialized with a schema    *)
(* and then takes rows, as long as its receiver is there.                  *)
(***************************************************************************)
\* Columns of the input, rows of the input, fields to drop.
MaxCols == 3
MaxRows == 2
MaxFields == 2

ColumnNames == <<"a", "b", "c", "d", "e", "f">>

\* Columns of distinct names, of integers and of text in turn.
AllColumns ==
    [k \in 1..MaxCols |->
        [name |-> ColumnNames[k],
         cell_type |-> IF k % 2 = 1 THEN "integer" ELSE "text"]]

\* Schemas: columns of distinct names.
Schemas == {SubSeq(AllColumns, 1, n) : n \in 0..MaxCols}

ValuesOf(column) ==
    IF column.cell_type = "integer" THEN {IntegerV(1), IntegerV(2)}
    ELSE {TextV(1), TextV(2)}

\* Rows that conform to a schema.
RowsOf(t) == {r \in [1..Len(t) -> {IntegerV(1), IntegerV(2), TextV(1), TextV(2)}] :
                 \A k \in 1..Len(t) : r[k] \in ValuesOf(t[k])}

Inputs ==
    {[kind |-> "closed", types |-> <<>>, rows |-> <<>>],
     [kind |-> "value", types |-> <<>>, rows |-> <<>>]}
    \cup UNION {{[kind |-> "stream", types |-> t, rows |-> rs] :
                    rs \in SeqUpTo(RowsOf(t), MaxRows)} : t \in Schemas}

Fields == {AllColumns[k].name : k \in 1..MaxCols}

Cfgs ==
    {[parse |-> "error", drop |-> <<>>]}
    \cup {[parse |-> "ok", drop |-> fs] : fs \in SeqUpTo(Fields, MaxFields)}

\* ColumnVec::find: the place of the column of that name; 0, there is none.
find(t, f) ==
    IF \E k \in 1..Len(t) : t[k].name = f
    THEN CHOOSE k \in 1..Len(t) : t[k].name = f
    ELSE 0

\* Lines 27-30: the places of the fields, and for every place of the
\* schema whether it is dropped.
drop_places(t, fields) == {find(t, fields[i]) : i \in 1..Len(fields)}

inc_of(t, fields) == [idx \in 1..Len(t) |-> idx \in drop_places(t, fields)]

\* A filter that lets everything through.
retain_all(v, inc) == v

\* drain(..).filter(|_| !*(it.next().unwrap())).collect(), lines 32 and 38:
\* the elements of v whose place is not marked in inc, in order.
RECURSIVE retain_from(_, _, _)
retain_from(v, inc, k) ==
    IF k > Len(v) THEN <<>>
    ELSE (IF inc[k] THEN <<>> ELSE <<v[k]>>) \o retain_from(v, inc, k + 1)

retain(v, inc) == retain_from(v, inc, 1)

\* context.output.initialize(schema): the schema is handed to the receiver;
\* an error, the receiver is gone.
initialize(out, types) ==
    IF out.open
    THEN [ok |-> TRUE, out |-> [out EXCEPT !.inits = @ + 1, !.types = types]]
    ELSE [ok |-> FALSE, out |-> out]

\* output.send(row): an error, the receiver is gone.
send(out, row) ==
    IF out.open
    THEN [ok |-> TRUE, out |-> [out EXCEPT !.rows = Append(@, row)]]
    ELSE [ok |-> FALSE, out |-> out]

\* input.read(): the next row; an error, the stream has ended.
read(in, nread) ==
    IF nread < Len(in.rows)
    THEN [ok |-> TRUE, row |-> in.rows[nread + 1]]
    ELSE [ok |-> FALSE, row |-> <<>>]

\* A stage that initializes its output again with every schema it has.
initialize_output_twice(out, t, inc) ==
    LET first == initialize(out, retain(t, inc)) IN
    IF first.ok THEN initialize(first.out, retain(t, inc)) ELSE first

\* Line 32: the output is initialized with the columns that are kept.
initialize_output(out, t, inc) == initialize(out, retain(t, inc))

\* A stage that sends what it has filtered twice.
send_row_twice(out, row, inc) ==
    LET first == send(out, retain(row, inc)) IN
    IF first.ok THEN send(first.out, retain(row, inc)) ELSE first

\* A stage that pays no attention to what send returns.
send_row_unchecked(out, row, inc) ==
    [ok |-> TRUE, out |-> send(out, retain(row, inc)).out]

\* Lines 36-40: the row is filtered and sent, and the error of send is the
\* error of drop.
send_row(out, row, inc) == send(out, retain(row, inc))

\* The worker of the drop stage.
DropWorker == <<1, <<>>>>

InitDrop ==
    /\ ScopeIdle
    /\ CmdIdle
    /\ TypeIdle
    /\ PupIdle
    /\ script = [parse |-> "ok", jobs |-> <<[invoke |-> "ok", handle |-> Async]>>]
    /\ ctl = [pc |-> "join", i |-> 1, stack |-> <<[h |-> Async, path |-> <<>>]>>]
    /\ workers = (DropWorker :> "running")
    /\ log = <<Event("invoke", 1, <<>>)>>
    /\ input \in Inputs
    /\ cfg \in Cfgs
    /\ output = [inits |-> 0, types |-> <<>>, rows |-> <<>>, open |-> TRUE]
    /\ stage = [pc |-> "start", nread |-> 0, row |-> <<>>, res |-> "none"]

\* drop returns, and with it the worker.
Return(res) ==
    /\ stage' = [stage EXCEPT !.pc = "done", !.res = res]
    /\ workers' = [workers EXCEPT ![DropWorker] = res]

\* Lines 23-32: the arguments, the input, the places to drop, the output.
DropStart ==
    /\ stage.pc = "start"
    /\ IF \/ cfg.parse = "error"
          \/ input.kind # "stream"
          \/ 0 \in drop_places(input.types, cfg.drop)
       THEN Return("err") /\ UNCHANGED output
       ELSE LET t == input.types
                inc == inc_of(t, cfg.drop)
                i == initialize_output(output, t, inc)
            IN  /\ output' = i.out
                /\ IF i.ok
                   THEN /\ stage' = [stage EXCEPT !.pc = "read"]
                        /\ UNCHANGED workers
                   ELSE Return("err")
    /\ UNCHANGED <<scopeVars, pureVars, script, ctl, log, input, cfg>>

\* Line 33: while let Ok(row) = input.read(); line 42 when it is not.
DropRead ==
    /\ stage.pc = "read"
    /\ LET r == read(input, stage.nread) IN
       IF r.ok
       THEN /\ stage' = [stage EXCEPT !.pc = "send", !.nread = @ + 1, !.row = r.row]
            /\ UNCHANGED workers
       ELSE Return("ok")
    /\ UNCHANGED <<scopeVars, pureVars, script, ctl, log, input, cfg, output>>

\* Lines 34-40: the row is filtered and sent.  A row with more cells than
\* the schema has columns ends the iterator it, and unwrap panics.
DropSend ==
    /\ stage.pc = "send"
    /\ LET inc == inc_of(input.types, cfg.drop) IN
       IF Len(stage.row) > Len(inc)
       THEN Return("panic") /\ UNCHANGED output
       ELSE LET r == send_row(output, stage.row, inc) IN
            /\ output' = r.out
            /\ IF r.ok
               THEN /\ stage' = [stage EXCEPT !.pc = "read"]
                    /\ UNCHANGED workers
               ELSE Return("err")
    /\ UNCHANGED <<scopeVars, pureVars, script, ctl, log, input, cfg>>

\* The stage downstream drops the receiver of the output.
ReceiverDrop ==
    /\ stage.pc # "done"
    /\ output.open
    /\ output' = [output EXCEPT !.open = FALSE]
    /\ UNCHANGED <<scopeVars, pureVars, execVars, input, cfg, stage>>

NextDrop ==
    \/ DropStart
    \/ DropRead
    \/ DropSend
    \/ ReceiverDrop
    \/ ExecJoin

SpecDrop == InitDrop /\ [][NextDrop]_vars

(***************************************************************************)
(* What the claims about drop speak of.                                    *)
(***************************************************************************)
\* A field that names no column of the input.
NotAColumn ==
    \E i \in 1..Len(cfg.drop) :
        \A k \in 1..Len(input.types) : input.types[k].name # cfg.drop[i]

\* The columns of the input that are not named, and their places, in order.
Named(column) == \E i \in 1..Len(cfg.drop) : cfg.drop[i] = column.name
Kept(column) == ~Named(column)
KeptPlace(k) == Kept(input.types[k])
KeptPlaces == SelectSeq([k \in 1..Len(input.types) |-> k], KeptPlace)

\* The values of a row at the places kept.
Project(row) == [j \in 1..Len(KeptPlaces) |-> row[KeptPlaces[j]]]

\* C16: the output is never initialized twice, and no row is sent, or about
\* to be sent, before it is initialized; an invocation that has returned
\* has either initialized the output once, or returned an error without
\* having initialized it and without having sent a row; it returns such an
\* error when the input is not a stream and when a field names no column.
C16_InitializeOnce ==
    /\ output.inits <= 1
    /\ output.rows # <<>> => output.inits = 1
    /\ stage.pc \in {"read", "send"} => output.inits = 1
    /\ stage.pc = "done" =>
        \/ output.inits = 1
        \/ stage.res = "err" /\ output.inits = 0 /\ output.rows = <<>>
    /\ stage.pc = "done" /\ (input.kind = "value" \/ NotAColumn) =>
        stage.res = "err" /\ output.inits = 0

\* drop has initialized its output, sent every row and returned.
C16_Witness ==
    /\ stage.pc = "done"
    /\ stage.res = "ok"
    /\ output.inits = 1
    /\ Len(output.rows) = MaxRows

\* drop has returned for a stream that lacks a column it was to drop.
C16_FieldMissing ==
    /\ stage.pc = "done"
    /\ input.kind = "stream"
    /\ cfg.parse = "ok"
    /\ NotAColumn

\* C17: the schema the output is initialized with is the schema of the
\* input without the columns named, in the order of the input; every row
\* sent is a row of the input reduced to the places kept, has one value for
\* every column of the output schema, and each value is of the type of its
\* column.
C17_RowsConform ==
    output.inits > 0 =>
        /\ output.types = SelectSeq(input.types, Kept)
        /\ \A k \in 1..Len(output.rows) :
            LET row == output.rows[k] IN
            /\ \E m \in 1..Len(input.rows) : row = Project(input.rows[m])
            /\ Len(row) = Len(output.types)
            /\ \A j \in 1..Len(row) : value_type(row[j]) = output.types[j].cell_type

\* Rows of three columns were sent without the one in the middle.
C17_Witness ==
    /\ Len(input.types) = MaxCols
    /\ cfg.drop = <<"b">>
    /\ Len(output.rows) = MaxRows
    /\ \A k \in 1..MaxRows :
        output.rows[k] = <<input.rows[k][1], input.rows[k][MaxCols]>>

\* C18: the k-th row sent is the k-th row read, reduced; while the receiver
\* is there, every row read has been sent, but for the one in hand; and when
\* drop returns Ok it has read every row of the input and sent one row for
\* each.
C18_OrderKept ==
    /\ \A k \in 1..Len(output.rows) :
        /\ k <= stage.nread
        /\ output.rows[k] = Project(input.rows[k])
    /\ output.open /\ output.inits = 1 =>
        Len(output.rows) = stage.nread - (IF stage.pc = "send" THEN 1 ELSE 0)
    /\ stage.pc = "done" /\ stage.res = "ok" =>
        /\ stage.nread = Len(input.rows)
        /\ Len(output.rows) = stage.nread

\* drop has returned Ok, the receiver still there, after rows that differ
\* in what is kept of them.
C18_Witness ==
    /\ stage.pc = "done"
    /\ stage.res = "ok"
    /\ output.open
    /\ cfg.drop # <<>>
    /\ Len(output.rows) = MaxRows
    /\ output.rows[1] # output.rows[MaxRows]

\* drop has returned an error from a send.
SendFailed == stage.pc = "done" /\ stage.res = "err" /\ output.inits = 1

\* C19: a send made when the receiver is gone fails: the row is not sent,
\* no further row is read, and drop returns an error at once.  After that
\* the receiver is gone, the row read last is the one that was not sent,
\* the worker has exited with the error, and once its handle is joined the
\* printer was called once, with job_error.
C19_ReceiverDropped ==
    /\ [][stage.pc = "send" /\ ~output.open /\ stage' # stage =>
            /\ stage' = [stage EXCEPT !.pc = "done", !.res = "err"]
            /\ output' = output
            /\ workers'[DropWorker] = "err"]_vars
    /\ [](SendFailed =>
            /\ ~output.open
            /\ stage.nread = Len(output.rows) + 1
            /\ workers[DropWorker] = "err"
            /\ ctl.pc = "done" =>
                /\ Count(Events("job_error", 1)) = 1
                /\ Events("error", 1) = {}
                /\ Events("crush_error", 1) = {})

\* The receiver went away after the first row, the send of the second
\* failed, and the handle of the stage was joined.
C19_Witness ==
    /\ SendFailed
    /\ Len(output.rows) = 1
    /\ Len(input.rows) > 1
    /\ ctl.pc = "done"
    /\ Events("job_error", 1) # {}

(***************************************************************************)
(* Cells and the equality of their data types (src/src/result.rs).         *)
(***************************************************************************)
\* Cells at hand, comparisons made.
MaxCells == 3
MaxCompared == 3

CellDataType == {"Text", "Integer", "Time"}

Cell(variant, val) == [variant |-> variant, val |-> val]

Cells == {Cell(v, n) : v \in CellDataType, n \in {0, 1}}

cell_data_type(self) ==
    CASE self.variant = "Text" -> "Text"
      [] self.variant = "Integer" -> "Integer"
      [] self.variant = "Time" -> "Time"

\* PartialEq for CellDataType: the match of lines 14-18.
CellDataType_eq(self, other) ==
    CASE self = "Text" /\ other = "Text" -> TRUE
      [] self = "Integer" /\ other = "Integer" -> TRUE
      [] OTHER -> FALSE

InitType ==
    /\ ScopeIdle
    /\ ExecIdle
    /\ DropIdle
    /\ CmdIdle
    /\ PupIdle
    /\ cells \in [1..MaxCells -> Cells]
    /\ eq = <<>>

\* cells[a].cell_data_type() == cells[b].cell_data_type()
TypeEq ==
    /\ Len(eq) < MaxCompared
    /\ \E a, b \in 1..MaxCells :
        eq' = Append(eq, [a |-> a, b |-> b,
                          res |-> CellDataType_eq(cell_data_type(cells[a]),
                                                  cell_data_type(cells[b]))])
    /\ UNCHANGED <<scopeVars, execVars, dropVars, cmdVars, pupVars, cells>>

NextType ==
    \/ TypeEq

SpecType == InitType /\ [][NextType]_vars

\* C20: two data types are equal exactly when they are the same variant,
\* and the equality is reflexive, symmetric and transitive.
C20_NominalEquality ==
    /\ \A k \in 1..Len(eq) :
        eq[k].res <=> cells[eq[k].a].variant = cells[eq[k].b].variant
    /\ \A k \in 1..Len(eq) : eq[k].a = eq[k].b => eq[k].res
    /\ \A k, m \in 1..Len(eq) :
        eq[k].a = eq[m].b /\ eq[k].b = eq[m].a => eq[k].res = eq[m].res
    /\ \A k, m, n \in 1..Len(eq) :
        /\ eq[k].b = eq[m].a /\ eq[n].a = eq[k].a /\ eq[n].b = eq[m].b
        /\ eq[k].res /\ eq[m].res
        => eq[n].res

\* Extra: the equality is nominal for Text and Integer, symmetric and
\* transitive; it fails for Time only.
C20_ButForTime ==
    /\ \A k \in 1..Len(eq) :
        eq[k].res <=> /\ cells[eq[k].a].variant = cells[eq[k].b].variant
                      /\ cells[eq[k].a].variant # "Time"
    /\ \A k, m \in 1..Len(eq) :
        eq[k].a = eq[m].b /\ eq[k].b = eq[m].a => eq[k].res = eq[m].res
    /\ \A k, m, n \in 1..Len(eq) :
        /\ eq[k].b = eq[m].a /\ eq[n].a = eq[k].a /\ eq[n].b = eq[m].b
        /\ eq[k].res /\ eq[m].res
        => eq[n].res

(***************************************************************************)
(* What the claims about dump and get speak of.                            *)
(***************************************************************************)
\* The type a dump of s is to report for n: that of the local binding,
\* else what the earliest import that reports one reports, else what the
\* parent reports; "" when there is none.
RECURSIVE Reported(_, _, _)
Reported(g, s, n) ==
    LET d == g[s]
        providing == {i \in 1..Len(d.uses) : Reported(g, d.uses[i], n) # ""}
    IN  IF d.mapping[n] # None THEN value_type(d.mapping[n])
        ELSE IF providing # {} THEN Reported(g, d.uses[Min(providing)], n)
        ELSE IF d.parent_scope # NoScope THEN Reported(g, d.parent_scope, n)
        ELSE ""

\* The caller's dump has returned.
Dumped == hist # <<>> /\ hist[1].op = "dump" /\ hist[1].res = "ok"

\* C21: the map of a dump on S that has returned holds for every name the
\* type of S's local binding if there is one, else the type that the
\* earliest import that provides the name provides, else the type from the
\* parent.
C21_DumpOrder ==
    Dumped => \A n \in Names : hist[1].ret[n] = Reported(sc, hist[1].self, n)

\* A dump has returned for a scope that does not bind a name which two of
\* its imports provide with different types.
C21_Witness ==
    /\ Dumped
    /\ \E n \in Names :
        LET d == sc[hist[1].self] IN
        /\ d.mapping[n] = None
        /\ Len(d.uses) >= 2
        /\ Reported(sc, d.uses[1], n) # ""
        /\ Reported(sc, d.uses[2], n) # ""
        /\ Reported(sc, d.uses[1], n) # Reported(sc, d.uses[2], n)

\* A dump has returned for a scope that binds a name which an import and
\* the parent provide with another type.
C21_LocalShadows ==
    /\ Dumped
    /\ \E n \in Names :
        LET d == sc[hist[1].self] IN
        /\ d.mapping[n] # None
        /\ d.parent_scope # NoScope
        /\ Len(d.uses) >= 1
        /\ Reported(sc, d.uses[1], n) \notin {"", value_type(d.mapping[n])}
        /\ Reported(sc, d.parent_scope, n) \notin {"", value_type(d.mapping[n])}

\* C27: a get returns, with a value or with None, on every graph made with
\* create_child, create_namespace, declare and use.
C27_GetTerminates ==
    last.op = "get" => last.ret # Overflow

\* C28: after a dump on S that has returned, a name is in the map exactly
\* when get on S returns a value for it, and the type in the map is the
\* type of that value.
C28_DumpAgreesWithGet ==
    (Dumped /\ Len(hist) = 2) =>
        LET n == hist[2].name[1]
            v == hist[2].ret
            t == hist[1].ret[n]
        IN  /\ v # Overflow
            /\ t # "" <=> v # None
            /\ v # None => t = value_type(v)

\* Extra: after a dump that has returned, get returns; and what get finds,
\* dump reports, though maybe with the type of another binding.
C28_GetWithinDump ==
    (Dumped /\ Len(hist) = 2) =>
        /\ hist[2].ret # Overflow
        /\ hist[2].ret # None => hist[1].ret[hist[2].name[1]] # ""

(***************************************************************************)
(* The scopes a scope sees through imports only: those reached from it by  *)
(* parent and import links that are not on its parent chain.               *)
(***************************************************************************)
InChain(g, s) == {ParentChain(g, s)[i] : i \in 1..Len(ParentChain(g, s))}

Linked(g, S) ==
    S \cup {g[s].parent_scope : s \in {t \in S : g[t].parent_scope # NoScope}}
      \cup UNION {{g[s].uses[i] : i \in 1..Len(g[s].uses)} : s \in S}

RECURSIVE Reach(_, _)
Reach(g, S) == IF Linked(g, S) = S THEN S ELSE Reach(g, Linked(g, S))

ImportedOnly(g, s) == Reach(g, {s}) \ InChain(g, s)

\* C22: imports are for lookup only.  use(other) on S appends other to the
\* imports of S and changes nothing else.  A declare, set or remove of a
\* single name on S leaves the bindings of every scope that S reaches through
\* imports only as they were; a set or remove of a name that only such a scope
\* binds fails (unknown variable, None) and changes nothing.
C22_ImportsLookupOnly ==
    /\ last.op = "use" =>
          sc = [pre EXCEPT ![last.self].uses = pre[last.self].uses \o <<last.other>>]
    /\ (last.op \in {"declare", "set", "remove"} /\ Len(last.name) = 1) =>
          /\ \A t \in ImportedOnly(pre, last.self) : sc[t].mapping = pre[t].mapping
          /\ (/\ last.op \in {"set", "remove"}
              /\ NearestBinder(pre, last.self, last.name[1]) = NoScope
              /\ \E t \in ImportedOnly(pre, last.self) : pre[t].mapping[last.name[1]] # None)
             => /\ sc = pre
                /\ last.op = "set" => last.res = "unknown_variable"
                /\ last.op = "remove" => last.ret = None

\* A set of a name that get finds through an import, on a scope whose parent
\* chain does not bind it, with a value of the type of the binding.
C22_Witness ==
    /\ last.op = "set"
    /\ Len(last.name) = 1
    /\ NearestBinder(pre, last.self, last.name[1]) = NoScope
    /\ get(pre, last.self, last.name[1]) \in ScalarValues
    /\ value_type(get(pre, last.self, last.name[1])) = value_type(last.value)
    /\ last.res = "unknown_variable"

\* The same for remove, and a use on a scope that has an import already.
C22_RemoveReached ==
    /\ last.op = "remove"
    /\ Len(last.name) = 1
    /\ NearestBinder(pre, last.self, last.name[1]) = NoScope
    /\ get(pre, last.self, last.name[1]) \in ScalarValues
    /\ last.ret = None

C22_UseReached ==
    /\ last.op = "use"
    /\ pre[last.self].uses # <<>>
    /\ last.other # pre[last.self].uses[1]

\* C23: declare of ns.x on S looks ns up with get and binds x in the scope
\* found, and changes nothing else; it fails and changes nothing when get
\* finds nothing, finds a value that is not a scope, or finds a scope that is
\* read-only or binds x already.  create_namespace(name) on S fails and
\* changes nothing when S binds name or is read-only; otherwise it binds name
\* in S to a new scope without parent, caller, imports or bindings.
C23_DottedDeclare ==
    /\ (last.op = "declare" /\ Len(last.name) = 2
         /\ get(pre, last.self, last.name[1]) # Overflow) =>
          LET env == get(pre, last.self, last.name[1])
              x   == last.name[2]
          IN  IF env.type = "scope" /\ ~pre[env.val].is_readonly
                 /\ pre[env.val].mapping[x] = None
              THEN /\ last.res = "ok"
                   /\ sc = [pre EXCEPT ![env.val].mapping[x] = last.value]
              ELSE /\ last.res # "ok"
                   /\ sc = pre
    /\ last.op = "create_namespace" =>
          LET S == last.self
              n == last.name[1]
          IN  IF pre[S].mapping[n] # None \/ pre[S].is_readonly
              THEN /\ last.res # "ok"
                   /\ sc = pre
              ELSE /\ last.res = "ok"
                   /\ last.ret = ScopeV(Len(pre) + 1)
                   /\ sc = Append([pre EXCEPT ![S].mapping[n] = last.ret],
                                  ScopeData_new(NoScope, NoScope, FALSE))

\* A declare of ns.x that succeeds on a scope that does not bind ns itself.
C23_Witness ==
    /\ last.op = "declare"
    /\ Len(last.name) = 2
    /\ last.res = "ok"
    /\ pre[last.self].mapping[last.name[1]] = None
    /\ sc[last.self].mapping = pre[last.self].mapping
    /\ \E t \in Scopes(sc) \ {last.self} : sc[t].mapping[last.name[2]] = last.value

\* The failures of the claim: ns found nowhere, ns not a scope, the
\* namespace read-only, x bound in the namespace, and a create_namespace
\* that is refused.
C23_NotFound ==
    /\ last.op = "declare" /\ Len(last.name) = 2
    /\ get(pre, last.self, last.name[1]) = None
    /\ last.res = "not_a_namespace"

C23_NotAScope ==
    /\ last.op = "declare" /\ Len(last.name) = 2
    /\ get(pre, last.self, last.name[1]) \in ScalarValues
    /\ last.res = "unknown_namespace"

C23_NamespaceSealed ==
    /\ last.op = "declare" /\ Len(last.name) = 2
    /\ last.res = "read_only"

C23_Exists ==
    /\ last.op = "declare" /\ Len(last.name) = 2
    /\ last.res = "already_exists"

C23_NamespaceRefused ==
    /\ last.op = "create_namespace"
    /\ last.res \in {"already_exists", "read_only"}

\* The scopes of the calling chain of s before the first loop scope.
BeforeLoop(g, s) ==
    LET chain == CallingChain(g, s)
        idx == {k \in 1..Len(chain) : g[chain[k]].is_loop}
    IN  IF idx = {} THEN {} ELSE {chain[k] : k \in 1..(Min(idx) - 1)}

\* C24: when do_break or do_continue on S returns true, S and every scope of
\* the calling chain between S and the loop scope found are stopped
\* afterwards; when it returns false, no scope has changed its is_stopped.
C24_StoppedOnChain ==
    last.op \in {"do_break", "do_continue"} =>
        IF last.res = "true"
        THEN \A s \in {last.self} \cup BeforeLoop(pre, last.self) : sc[s].is_stopped
        ELSE \A s \in Scopes(pre) : sc[s].is_stopped = pre[s].is_stopped

\* What holds of both operations: the scopes before the loop scope found
\* are stopped after true, every other scope but the loop scope keeps its
\* flag, and nothing changes after false.
C24_BeforeLoopStopped ==
    last.op \in {"do_break", "do_continue"} =>
        IF last.res = "true"
        THEN /\ \A s \in BeforeLoop(pre, last.self) : sc[s].is_stopped
             /\ \A s \in Scopes(pre) \ (BeforeLoop(pre, last.self) \cup {LoopFound(pre, last.self)}) :
                    sc[s].is_stopped = pre[s].is_stopped
        ELSE sc = pre

C24_ChainReached ==
    /\ last.op = "do_continue"
    /\ last.res = "true"
    /\ BeforeLoop(pre, last.self) = {last.self}
    /\ \A s \in BeforeLoop(pre, last.self) : ~pre[s].is_stopped

\* C25: a read-only scope refuses break and continue in every interleaving:
\* no step takes is_stopped of a scope from false to true in a state where
\* the scope is read-only already, whatever readonly, do_break and
\* do_continue the threads run.
C25_ReadonlyRefuses ==
    [][\A s \in Scopes(sc) :
          (sc[s].is_readonly /\ ~sc[s].is_stopped) => ~sc'[s].is_stopped]_vars

\* The same of a caller that makes one call at a time: there it holds.
C25_RefusesAlone ==
    (last.op \in {"do_break", "do_continue"}) =>
        \A s \in Scopes(pre) : (pre[s].is_readonly /\ ~pre[s].is_stopped) => ~sc[s].is_stopped

(***************************************************************************)
(* Threads that race to declare one name in one scope, each with a value   *)
(* of its own.  The graph is built as in the concurrent specification; pre *)
(* keeps the graph the threads start on.                                   *)
(***************************************************************************)
RaceValue(t) == IntegerV(t)

RaceStart ==
    \E self \in Scopes(sc), name \in Names :
        /\ \A t \in Threads : thr[t] = Idle
        /\ pre = <<>>
        /\ thr' = [t \in Threads |-> Called(
               [Idle EXCEPT !.call = Call("declare", self, <<name>>, RaceValue(t),
                                          NoScope, FALSE, "", None)],
               Enter("declare", self, <<name>>, RaceValue(t)))]
        /\ pre' = sc
        /\ UNCHANGED <<sc, last, hist, lock, rest>>

RaceBuild ==
    /\ pre = <<>>
    /\ ConcBuild

NextRace ==
    \/ RaceBuild
    \/ RaceStart
    \/ ConcLock
    \/ ConcDeclare

SpecRace == Init /\ [][NextRace]_vars

\* The threads whose declare has returned, and those whose declare succeeded.
RaceOver == {t \in Threads : thr[t].call.op = "declare" /\ thr[t].call.res # ""}
RaceWon == {t \in RaceOver : thr[t].call.res = "ok"}

\* C26: of the threads that declare the same name in the same scope at the
\* same time, exactly one succeeds when the scope is writable and does not
\* bind the name; every other one fails with already exists, and the name
\* is bound to the value of the one that succeeded.
C26_DeclareAtomic ==
    pre # <<>> =>
        LET S == thr[1].call.self
            n == thr[1].call.name[1]
            open == ~pre[S].is_readonly /\ pre[S].mapping[n] = None
        IN  /\ Cardinality(RaceWon) <= 1
            /\ \A t \in RaceWon : open /\ sc[S].mapping[n] = thr[t].call.value
            /\ \A t \in RaceOver \ RaceWon :
                   thr[t].call.res = (IF pre[S].is_readonly THEN "read_only"
                                      ELSE "already_exists")
            /\ (open /\ RaceOver = Threads) => Cardinality(RaceWon) = 1
            /\ RaceWon = {} => sc = pre

\* Every thread has returned, and the one that took the lock last has won.
C26_Witness ==
    /\ pre # <<>>
    /\ RaceOver = Threads
    /\ RaceWon = {NumThreads}
    /\ \A t \in Threads \ RaceWon : thr[t].call.res = "already_exists"
    /\ sc[thr[1].call.self].mapping[thr[1].call.name[1]] = RaceValue(NumThreads)

\* C29: invoke of a bound command runs the command it wraps with the this of
\* the context set to the receiver it is bound to, whatever this the context
\* held; a command bound more than once is bound to the last receiver, so
\* c.bind(r1).bind(r2) runs c with this = r2.
C29_BoundThis ==
    \A k \in 1..Len(invoked) :
        LET i == invoked[k] IN
        i.receivers # <<>> =>
            /\ i.command.kind = "bound"
            /\ i.ran.call = i.command.command
            /\ i.ran.call \in Commands
            /\ i.ran.this = i.receivers[Len(i.receivers)]

\* A command bound to one receiver and then to another was invoked with a
\* context that held the first.
C29_Witness ==
    /\ invoked # <<>>
    /\ Len(invoked[1].receivers) = 2
    /\ invoked[1].receivers[1] # invoked[1].receivers[2]
    /\ invoked[1].context.this = invoked[1].receivers[1]
    /\ invoked[1].ran.this = invoked[1].receivers[2]

\* A command that was never bound runs with the this of its context.
C29_Unbound ==
    \A k \in 1..Len(invoked) :
        invoked[k].receivers = <<>> =>
            /\ invoked[k].ran.call = invoked[k].command
            /\ invoked[k].ran.this = invoked[k].context.this

(***************************************************************************)
(* pup() (src/src/lang/execute.rs).                                        *)
(*                                                                         *)
(* The buffer deserializes to a command, to another value, or not at all.  *)
(* The command's invoke is given the only sender of the output channel: it *)
(* sends values on it, it returns Ok or an error, and it drops the sender  *)
(* or leaves it with a worker that sends and exits later.  The serializer  *)
(* thread receives one value, serializes it and writes it; each of the     *)
(* three can fail, and serializing can panic.                              *)
(***************************************************************************)
\* The values a command sends on its output.
MaxSends == 2

Buffers == {"garbage", "value", "command"}

\* recv.recv()?: a queued value, or an error once no sender is left.
recv_ready(p) == p.chan > 0 \/ p.senders = 0

\* match t.join() { Ok(_) => Ok(()), Err(e) => argument_error(..) }
join_serializer(ser) == IF ser = "panic" THEN "err" ELSE "ok"

InitPup ==
    /\ ScopeIdle
    /\ ExecIdle
    /\ DropIdle
    /\ CmdIdle
    /\ TypeIdle
    /\ \E buf \in Buffers : pup = [NoPup EXCEPT !.pc = "deserialize", !.buf = buf]

PupStep(p) ==
    /\ pup' = p
    /\ UNCHANGED <<scopeVars, execVars, dropVars, cmdVars, typeVars>>

\* Lines 21-35: deserialize, the match on the value, the channel and the
\* spawn of the serializer thread.
PupStart ==
    /\ pup.pc = "deserialize"
    /\ \/ /\ pup.buf # "command"
          /\ PupStep([pup EXCEPT !.pc = "done", !.res = "err"])
       \/ /\ pup.buf = "command"
          /\ \/ PupStep([pup EXCEPT !.pc = "done", !.res = "err"])
             \/ PupStep([pup EXCEPT !.pc = "invoke", !.senders = 1, !.ser = "recv"])

\* Lines 37-46: cmd.invoke(..)?.  The context, and the sender in it, is
\* moved into the call.
PupInvoke ==
    /\ pup.pc = "invoke"
    /\ \E n \in 0..MaxSends, r \in {"ok", "err"}, kept \in BOOLEAN :
        PupStep([pup EXCEPT !.chan = @ + n, !.sent = n,
                            !.senders = IF kept THEN 1 ELSE 0,
                            !.worker = IF kept THEN "running" ELSE "none",
                            !.invoked = r,
                            !.pc = IF r = "ok" THEN "join" ELSE "done",
                            !.res = IF r = "ok" THEN "none" ELSE "err"])

\* The worker the command left behind sends a value, or exits and drops
\* the sender.
PupWorker ==
    /\ pup.worker = "running"
    /\ \/ /\ pup.sent < MaxSends
          /\ PupStep([pup EXCEPT !.chan = @ + 1, !.sent = @ + 1])
       \/ PupStep([pup EXCEPT !.senders = 0, !.worker = "exited"])

\* Line 30: let val = recv.recv()?
SerRecv ==
    /\ pup.ser = "recv"
    /\ recv_ready(pup)
    /\ IF pup.chan > 0
       THEN PupStep([pup EXCEPT !.chan = @ - 1, !.ser = "serialize"])
       ELSE PupStep([pup EXCEPT !.ser = "err"])

\* Lines 31-32: serialize(&val.materialize(), &mut buf)?
SerSerialize ==
    /\ pup.ser = "serialize"
    /\ \E out \in {"write", "err", "panic"} : PupStep([pup EXCEPT !.ser = out])

\* Lines 33-34: to_crush_error(std::io::stdout().write(&buf))?; Ok(())
SerWrite ==
    /\ pup.ser = "write"
    /\ \E out \in {"ok", "err"} : PupStep([pup EXCEPT !.ser = out])

\* Lines 48-51: t.join() returns once the serializer thread has ended.
PupJoin ==
    /\ pup.pc = "join"
    /\ pup.ser \in {"ok", "err", "panic"}
    /\ PupStep([pup EXCEPT !.pc = "done", !.res = join_serializer(pup.ser)])

NextPup ==
    \/ PupStart
    \/ PupInvoke
    \/ PupWorker
    \/ SerRecv
    \/ SerSerialize
    \/ SerWrite
    \/ PupJoin

SpecPup == InitPup /\ [][NextPup]_vars

\* Every thread that can take a step takes one in the end.
SpecPupFair ==
    /\ SpecPup
    /\ WF_vars(PupWorker)
    /\ WF_vars(SerRecv)
    /\ WF_vars(SerSerialize)
    /\ WF_vars(SerWrite)
    /\ WF_vars(PupJoin)

\* C30: pup reports every failure of its serializer thread: when pup has
\* returned and invoke failed, or the serializer thread panicked, or the
\* serializer thread returned an error (recv, serialize or write failed),
\* what pup returned is an error.
C30_PupSurfaces ==
    (pup.pc = "done" /\ pup.buf = "command") =>
        ((pup.invoked = "err" \/ (pup.invoked = "ok" /\ pup.ser \in {"panic", "err"}))
            => pup.res = "err")

\* What holds: a failed invoke and a panic of the serializer are reported.
C30_PanicSurfaces ==
    (pup.pc = "done" /\ pup.buf = "command") =>
        ((pup.invoked = "err" \/ (pup.invoked = "ok" /\ pup.ser = "panic"))
            => pup.res = "err")

\* The serializer thread is started before the command is invoked.
C30_StartedBefore ==
    pup.invoked # "none" => pup.ser # "none"

\* Once invoke has returned Ok, pup returns.
C30_PupReturns ==
    (pup.pc = "join") ~> (pup.pc = "done")

C30_PanicReached ==
    /\ pup.pc = "done"
    /\ pup.ser = "panic"
    /\ pup.res = "err"

====
